---- MODULE Spec2Model ----
(***************************************************************************)
(* A model of the concurrent processing engine of final_project:           *)
(*   - thread_pool.rs      the worker pool (mutex + condvar FIFO queue)    *)
(*   - progress_tracker.rs the shared progress tracker                     *)
(*   - main_helper.rs      process_files and progress_reporter             *)
(*                                                                         *)
(* Three specifications share the variables:                               *)
(*   Spec / FairSpec   one run of process_files                            *)
(*   PoolSpec          a client that builds a pool, calls execute() some   *)
(*                     number of times and ends it with shutdown() or by   *)
(*                     dropping it; tasks are counter increments or panic  *)
(*   TrackerSpec       threads calling the SharedProgressTracker API       *)
(***************************************************************************)
EXTENDS Naturals, Integers, Sequences, FiniteSets, TLC

\* ------------------------------------------------------------------ bounds

MaxWorkers == 2

MaxTasks == 3

MaxFiles == 2

MaxLimit == 2

MaxRecords == 3

MaxTotal == 2

\* PercentSpec: the largest total_files and files_completed
MaxPercentTotal == 6

MaxPercentDone == 7

\* AnalyzeSpec: the most lines of a file read without a failure, the longest
\* line, the most runs of line results in a file where reads fail (a run is one
\* line that was read, or some read failures in a row), the largest length
\* metadata reports
MaxLines == 2

MaxLineLen == 3

MaxRuns == 3

MaxSize == 1

\* DiscoverSpec: the most entries of the directory that is searched
MaxEntries == 2


\* the binary digits of an f64's significand
Precision == 53

\* the binary digits of one limb of a significand
LimbBits == 18

\* ------------------------------------------------------------- state

VARIABLES
    size,            \* ThreadPool.workers.len()
    queue,           \* the Vec<Message> behind sender/receiver
    qlock,           \* holder of the queue mutex ("free" or a thread)
    notified,        \* workers blocked in condvar.wait that a notify_all reached
    wpc,             \* each worker thread's position
    wmsg,            \* the message each worker holds after dequeuing
    wres,            \* the FileAnalysis a worker's task holds after analyze_file
    thread,          \* Worker.thread: TRUE while the JoinHandle is Some
    mpc,             \* the position of the thread that owns the pool
    mcall,           \* the pool method the owner is in
    joined,          \* index of the join loops
    tasks,           \* every task ever passed to execute(), in submission order
    tstate,          \* what became of each task
    runs,            \* how many times each task's callable was invoked
    dispatched,      \* task ids in the order workers dequeued them
    deqCancel,       \* CANCEL_REQUESTED as it was when each task was dequeued
    terminates_sent, \* number of Terminate messages ever appended
    counter,         \* the AtomicUsize the tests' tasks increment
    tracker,         \* the ProgressTracker behind SharedProgressTracker.inner
    tlock,           \* holder of the tracker mutex
    cancel_flag,     \* SharedProgressTracker.cancel_flag
    CANCEL_REQUESTED,\* the process-wide static of main_helper.rs
    rpc,             \* the reporter thread's position
    summary,         \* the reporter's last ProgressSummary
    discovered,      \* number of files discover_files returned
    limit,           \* process_files' limit argument
    tcall            \* TrackerSpec: the API call each client thread is in

poolVars == <<size, queue, qlock, notified, wpc, wmsg, thread, mpc, mcall, joined,
              tasks, tstate, runs, dispatched, deqCancel, terminates_sent, counter>>

trackerVars == <<tracker, tlock, cancel_flag>>

procVars == <<wres, CANCEL_REQUESTED, rpc, summary, discovered, limit>>

vars == <<poolVars, trackerVars, procVars, tcall>>

\* ------------------------------------------------------------- threads

WorkerIds == <<"w1", "w2", "w3", "w4", "w5">>

Workers == {WorkerIds[i] : i \in 1..size}

FileNames == <<"f1", "f2", "f3", "f4", "f5">>

Free == "free"

MainThread == "main"

ReporterThread == "reporter"

\* Mutex::lock returns once no thread holds the guard
MutexIgnored(holder) == TRUE

MutexFree(holder) == holder = Free

\* ------------------------------------------------------------- messages

NewTask(id) == [type |-> "NewTask", id |-> id]

Terminate == [type |-> "Terminate", id |-> 0]

NoMessage == [type |-> "None", id |-> 0]

\* ------------------------------------------------------------- models.rs, error.rs

\* HashMap::new()
EmptyMap == [c \in {} |-> 0]

\* FileStats::new (models.rs 22-29)
NewFileStats ==
    [word_count |-> 0, line_count |-> 0, char_frequencies |-> EmptyMap,
     size_bytes |-> 0]

\* FileAnalysis::new (models.rs 52-59); processing_time is a wall-clock reading
\* that no decision depends on
NewFileAnalysis(filename) ==
    [filename |-> filename, stats |-> NewFileStats, errors |-> <<>>]

\* FileAnalysis::is_successful (models.rs 62-64)
is_successful(analysis) == analysis.errors = <<>>

\* FileAnalysis::add_error (models.rs 67-69)
add_error(analysis, error) == [analysis EXCEPT !.errors = Append(@, error)]

NoAnalysis == NewFileAnalysis("")

\* Result<T, ProcessingError>
Ok(v) == [ok |-> TRUE, value |-> v]

Err(e) == [ok |-> FALSE, value |-> e]

\* io::ErrorKind: the categories From<io::Error> names, and some of the others
ErrorKinds ==
    {"NotFound", "PermissionDenied", "InvalidFilename", "InvalidInput",
     "InvalidData", "StorageFull", "OutOfMemory", "NotADirectory",
     "IsADirectory", "Interrupted", "UnexpectedEof", "Other"}

\* the conversion as it is without the arms of lines 59-69
from_not_found_or_io(kind) ==
    IF kind = "NotFound" THEN "FileNotFound" ELSE "IoError"

\* From<io::Error> for ProcessingError (error.rs 55-73); an error is modelled
\* by its variant, the message is left out
from(kind) ==
    CASE kind = "NotFound" -> "FileNotFound"
      [] kind = "PermissionDenied" -> "PermissionDenied"
      [] kind \in {"InvalidFilename", "InvalidInput"} -> "InvalidPath"
      [] kind = "InvalidData" -> "CorruptedFile"
      [] kind \in {"StorageFull", "OutOfMemory"} -> "SystemResource"
      [] kind \in {"NotADirectory", "IsADirectory"} -> "DirectoryError"
      [] OTHER -> "IoError"

RECURSIVE Terminates(_)
Terminates(n) == IF n = 0 THEN <<>> ELSE <<Terminate>> \o Terminates(n - 1)

\* queue.push(m)
Push(q, m) == Append(q, m)

\* queue.remove(0): the removed message and the rest of the queue
RemoveBack(q) == <<q[Len(q)], SubSeq(q, 1, Len(q) - 1)>>

RemovePeek(q) == <<Head(q), q>>

Remove0(q) == <<Head(q), Tail(q)>>

\* drop(queue) after the dequeue: who holds the queue mutex when the match runs
LockKept(w) == w

LockAfterDequeue(w) == Free

\* the Terminate messages shutdown() and Drop push: one per worker
TerminatesFor(n) == Terminates(n)


\* ------------------------------------------------------------- worker loop
\* thread_pool.rs, Worker::new: the closure each worker thread runs.

\* line 32: receiver.lock() at the top of the loop
WorkerLock(w) ==
    /\ wpc[w] = "loop"
    /\ qlock = Free
    /\ qlock' = w
    /\ wpc' = [wpc EXCEPT ![w] = "locked"]
    /\ UNCHANGED <<size, queue, notified, wmsg, thread, mpc, mcall, joined, tasks,
                   tstate, runs, dispatched, deqCancel, terminates_sent, counter>>
    /\ UNCHANGED <<trackerVars, procVars, tcall>>

\* a wait entered on an emptiness test that is no longer current: the worker
\* blocks whatever the queue holds
WorkerWait_stale(w) ==
    /\ wpc[w] = "locked"
    /\ qlock' = Free
    /\ wpc' = [wpc EXCEPT ![w] = "waiting"]
    /\ UNCHANGED <<size, queue, notified, wmsg, thread, mpc, mcall, joined, tasks,
                   tstate, runs, dispatched, deqCancel, terminates_sent, counter>>
    /\ UNCHANGED <<trackerVars, procVars, tcall>>

\* lines 35-36: the queue is empty, condvar.wait releases the mutex and blocks
WorkerWait(w) ==
    /\ wpc[w] = "locked"
    /\ queue = <<>>
    /\ qlock' = Free
    /\ wpc' = [wpc EXCEPT ![w] = "waiting"]
    /\ UNCHANGED <<size, queue, notified, wmsg, thread, mpc, mcall, joined, tasks,
                   tstate, runs, dispatched, deqCancel, terminates_sent, counter>>
    /\ UNCHANGED <<trackerVars, procVars, tcall>>

\* line 36: a notified waiter re-acquires the mutex and wait returns
WorkerWake(w) ==
    /\ wpc[w] = "waiting"
    /\ w \in notified
    /\ qlock = Free
    /\ qlock' = w
    /\ notified' = notified \ {w}
    /\ wpc' = [wpc EXCEPT ![w] = "locked"]
    /\ UNCHANGED <<size, queue, wmsg, thread, mpc, mcall, joined, tasks,
                   tstate, runs, dispatched, deqCancel, terminates_sent, counter>>
    /\ UNCHANGED <<trackerVars, procVars, tcall>>

\* line 36: std's Condvar::wait may also return spuriously
WorkerSpuriousWake(w) ==
    /\ wpc[w] = "waiting"
    /\ w \notin notified
    /\ qlock = Free
    /\ qlock' = w
    /\ wpc' = [wpc EXCEPT ![w] = "locked"]
    /\ UNCHANGED <<size, queue, notified, wmsg, thread, mpc, mcall, joined, tasks,
                   tstate, runs, dispatched, deqCancel, terminates_sent, counter>>
    /\ UNCHANGED <<trackerVars, procVars, tcall>>

\* lines 40-51: the message removed is a NewTask: drop the guard, call the task.
\* (The else branch of line 42 needs an empty queue with the mutex held right
\* after the while loop and is never taken.)
WorkerTakeTask(w) ==
    /\ wpc[w] = "locked"
    /\ queue # <<>>
    /\ Remove0(queue)[1].type = "NewTask"
    /\ LET got == Remove0(queue)
           id  == got[1].id
       IN  /\ queue' = got[2]
           /\ wmsg' = [wmsg EXCEPT ![w] = got[1]]
           /\ runs' = [runs EXCEPT ![id] = @ + 1]
           /\ tstate' = [tstate EXCEPT ![id] = "running"]
           /\ dispatched' = Append(dispatched, id)
           /\ deqCancel' = [deqCancel EXCEPT ![id] = CANCEL_REQUESTED]
    /\ qlock' = LockAfterDequeue(w)
    /\ wpc' = [wpc EXCEPT ![w] = "task"]
    /\ UNCHANGED <<size, notified, thread, mpc, mcall, joined, tasks,
                   terminates_sent, counter>>
    /\ UNCHANGED <<trackerVars, procVars, tcall>>

\* lines 40-47, 53-55: the message removed is a Terminate: drop the guard, break
WorkerTakeTerminate(w) ==
    /\ wpc[w] = "locked"
    /\ queue # <<>>
    /\ Remove0(queue)[1].type = "Terminate"
    /\ LET got == Remove0(queue)
       IN  /\ queue' = got[2]
           /\ wmsg' = [wmsg EXCEPT ![w] = got[1]]
    /\ qlock' = LockAfterDequeue(w)
    /\ wpc' = [wpc EXCEPT ![w] = "exited"]
    /\ UNCHANGED <<size, notified, thread, mpc, mcall, joined, tasks, tstate, runs,
                   dispatched, deqCancel, terminates_sent, counter>>
    /\ UNCHANGED <<trackerVars, procVars, tcall>>

WorkerLoop(w) ==
    \/ WorkerLock(w)
    \/ WorkerWait(w)
    \/ WorkerWake(w)
    \/ WorkerSpuriousWake(w)
    \/ WorkerTakeTask(w)
    \/ WorkerTakeTerminate(w)

\* ------------------------------------------------------------- the tests' tasks
\* thread_pool.rs 185-187, integration_tests.rs 116-118: c.fetch_add(1); and a
\* task that panics, which unwinds through line 51 and ends the worker thread.

TaskIncr(w) ==
    /\ wpc[w] = "task"
    /\ tasks[wmsg[w].id].kind = "incr"
    /\ counter' = counter + 1
    /\ tstate' = [tstate EXCEPT ![wmsg[w].id] = "done"]
    /\ wmsg' = [wmsg EXCEPT ![w] = NoMessage]
    /\ wpc' = [wpc EXCEPT ![w] = "loop"]
    /\ UNCHANGED <<size, queue, qlock, notified, thread, mpc, mcall, joined,
                   tasks, runs, dispatched, deqCancel, terminates_sent>>
    /\ UNCHANGED <<trackerVars, procVars, tcall>>

TaskPanic(w) ==
    /\ wpc[w] = "task"
    /\ tasks[wmsg[w].id].kind = "panic"
    /\ tstate' = [tstate EXCEPT ![wmsg[w].id] = "panicked"]
    /\ wmsg' = [wmsg EXCEPT ![w] = NoMessage]
    /\ wpc' = [wpc EXCEPT ![w] = "panicked"]
    /\ UNCHANGED <<size, queue, qlock, notified, thread, mpc, mcall, joined,
                   tasks, runs, dispatched, deqCancel, terminates_sent, counter>>
    /\ UNCHANGED <<trackerVars, procVars, tcall>>

\* ------------------------------------------------------------- pool methods
\* The owner of the pool is at "client" between calls.

\* execute, line 111: self.sender.lock()
ExecuteLock ==
    /\ mpc = "exec_lock"
    /\ qlock = Free
    /\ qlock' = MainThread
    /\ mpc' = "exec_push"
    /\ UNCHANGED <<size, queue, notified, wpc, wmsg, thread, mcall, joined, tasks,
                   tstate, runs, dispatched, deqCancel, terminates_sent, counter>>
    /\ UNCHANGED <<trackerVars, procVars, tcall>>

\* execute, lines 112-113: push NewTask at the tail, drop the guard.  The task
\* pushed is the last one of `tasks`.
ExecutePush ==
    /\ mpc = "exec_push"
    /\ queue' = Push(queue, NewTask(Len(tasks)))
    /\ tstate' = [tstate EXCEPT ![Len(tasks)] = "queued"]
    /\ qlock' = Free
    /\ mpc' = "exec_notify"
    /\ UNCHANGED <<size, notified, wpc, wmsg, thread, mcall, joined, tasks,
                   runs, dispatched, deqCancel, terminates_sent, counter>>
    /\ UNCHANGED <<trackerVars, procVars, tcall>>

\* condvar.notify_all(): every worker blocked in wait is woken
NotifyAll == {w \in Workers : wpc[w] = "waiting"}

\* execute, line 116
ExecuteNotify ==
    /\ mpc = "exec_notify"
    /\ notified' = notified \cup NotifyAll
    /\ mpc' = "client"
    /\ mcall' = "none"
    /\ UNCHANGED <<size, queue, qlock, wpc, wmsg, thread, joined, tasks,
                   tstate, runs, dispatched, deqCancel, terminates_sent, counter>>
    /\ UNCHANGED <<trackerVars, procVars, tcall>>

\* shutdown, line 132 / drop, line 156: self.sender.lock()
TerminateLock ==
    /\ mpc \in {"shut_lock", "drop_lock"}
    /\ qlock = Free
    /\ qlock' = MainThread
    /\ mpc' = IF mpc = "shut_lock" THEN "shut_push" ELSE "drop_push"
    /\ UNCHANGED <<size, queue, notified, wpc, wmsg, thread, mcall, joined, tasks,
                   tstate, runs, dispatched, deqCancel, terminates_sent, counter>>
    /\ UNCHANGED <<trackerVars, procVars, tcall>>

\* shutdown, lines 133-136: push one Terminate per worker, release the mutex
ShutdownPush ==
    /\ mpc = "shut_push"
    /\ queue' = queue \o TerminatesFor(size)
    /\ terminates_sent' = terminates_sent + Len(TerminatesFor(size))
    /\ qlock' = Free
    /\ mpc' = "shut_notify"
    /\ UNCHANGED <<size, notified, wpc, wmsg, thread, mcall, joined, tasks,
                   tstate, runs, dispatched, deqCancel, counter>>
    /\ UNCHANGED <<trackerVars, procVars, tcall>>

\* shutdown, line 139
ShutdownNotify ==
    /\ mpc = "shut_notify"
    /\ notified' = notified \cup NotifyAll
    /\ mpc' = "shut_join"
    /\ joined' = 0
    /\ UNCHANGED <<size, queue, qlock, wpc, wmsg, thread, mcall, tasks,
                   tstate, runs, dispatched, deqCancel, terminates_sent, counter>>
    /\ UNCHANGED <<trackerVars, procVars, tcall>>

\* a thread that can be joined has ended: it broke out of the loop or panicked
Ended(w) == wpc[w] \in {"exited", "panicked"}

\* shutdown, lines 142-146: take each handle and join it; the result is ignored.
\* After the loop `self` goes out of scope, which runs Drop for ThreadPool.
ShutdownJoin ==
    /\ mpc = "shut_join"
    /\ IF joined < size
       THEN /\ Ended(WorkerIds[joined + 1])
            /\ thread' = [thread EXCEPT ![WorkerIds[joined + 1]] = FALSE]
            /\ joined' = joined + 1
            /\ mpc' = mpc
       ELSE /\ mpc' = "drop_lock"
            /\ UNCHANGED <<thread, joined>>
    /\ UNCHANGED <<size, queue, qlock, notified, wpc, wmsg, mcall, tasks,
                   tstate, runs, dispatched, deqCancel, terminates_sent, counter>>
    /\ UNCHANGED <<trackerVars, procVars, tcall>>

\* Drop for ThreadPool, lines 152-160
DropPush ==
    /\ mpc = "drop_push"
    /\ queue' = queue \o TerminatesFor(size)
    /\ terminates_sent' = terminates_sent + Len(TerminatesFor(size))
    /\ qlock' = Free
    /\ mpc' = "drop_notify"
    /\ UNCHANGED <<size, notified, wpc, wmsg, thread, mcall, joined, tasks,
                   tstate, runs, dispatched, deqCancel, counter>>
    /\ UNCHANGED <<trackerVars, procVars, tcall>>

\* Drop for ThreadPool, line 163
DropNotify ==
    /\ mpc = "drop_notify"
    /\ notified' = notified \cup NotifyAll
    /\ mpc' = "drop_workers"
    /\ joined' = 0
    /\ UNCHANGED <<size, queue, qlock, wpc, wmsg, thread, mcall, tasks,
                   tstate, runs, dispatched, deqCancel, terminates_sent, counter>>
    /\ UNCHANGED <<trackerVars, procVars, tcall>>

\* a destructor that hands the pool back to its owner: execute() can be called
\* again after the Terminates were pushed
DropWorkers_reusable ==
    /\ mpc = "drop_workers"
    /\ IF joined < size
       THEN /\ thread[WorkerIds[joined + 1]] => Ended(WorkerIds[joined + 1])
            /\ thread' = [thread EXCEPT ![WorkerIds[joined + 1]] = FALSE]
            /\ joined' = joined + 1
            /\ mpc' = mpc
       ELSE /\ mpc' = "client"
            /\ UNCHANGED <<thread, joined>>
    /\ UNCHANGED <<size, queue, qlock, notified, wpc, wmsg, mcall, tasks,
                   tstate, runs, dispatched, deqCancel, terminates_sent, counter>>
    /\ UNCHANGED <<trackerVars, procVars, tcall>>

\* Drop for Worker, lines 67-71, for each element of `workers` in order: join the
\* thread if the handle is still there.  Then the method the owner called returns.
DropWorkers ==
    /\ mpc = "drop_workers"
    /\ IF joined < size
       THEN /\ thread[WorkerIds[joined + 1]] => Ended(WorkerIds[joined + 1])
            /\ thread' = [thread EXCEPT ![WorkerIds[joined + 1]] = FALSE]
            /\ joined' = joined + 1
            /\ mpc' = mpc
       ELSE /\ mpc' = IF mcall = "shutdown" THEN "shutdown_returned" ELSE "dropped"
            /\ UNCHANGED <<thread, joined>>
    /\ UNCHANGED <<size, queue, qlock, notified, wpc, wmsg, mcall, tasks,
                   tstate, runs, dispatched, deqCancel, terminates_sent, counter>>
    /\ UNCHANGED <<trackerVars, procVars, tcall>>

PoolMethods ==
    \/ ExecuteLock
    \/ ExecutePush
    \/ ExecuteNotify
    \/ TerminateLock
    \/ ShutdownPush
    \/ ShutdownNotify
    \/ ShutdownJoin
    \/ DropPush
    \/ DropNotify
    \/ DropWorkers


\* ------------------------------------------------------------- a pool's client
\* The tests of thread_pool.rs and integration_tests.rs: ThreadPool::new(size),
\* some execute() calls, then shutdown() or the end of the scope (drop).

AnySize(n) == TRUE

\* thread_pool.rs 87: assert!(size > 0, ..)
SizeAccepted(n) == n > 0

\* thread_pool.rs 120-122: num_workers() is workers.len(), the Worker structs
\* ThreadPool::new pushed
num_workers == Cardinality({w \in Workers : wpc[w] # "unspawned"})

\* thread_pool.rs 86-102: ThreadPool::new(size) panics on the assertion or spawns
\* one worker per index of 0..size
ClientNew ==
    /\ mpc = "new"
    /\ IF SizeAccepted(size)
       THEN /\ wpc' = [w \in Workers |-> "loop"]
            /\ mpc' = "client"
       ELSE /\ mpc' = "panicked"
            /\ UNCHANGED wpc
    /\ UNCHANGED <<size, queue, qlock, notified, wmsg, thread, mcall, joined, tasks,
                   tstate, runs, dispatched, deqCancel, terminates_sent, counter>>
    /\ UNCHANGED <<trackerVars, procVars, tcall>>

TaskKinds == {"incr", "panic"}

\* the bookkeeping of a call of execute(f): f becomes the next task
Submit(task) ==
    /\ tasks' = Append(tasks, task)
    /\ tstate' = Append(tstate, "submitting")
    /\ runs' = Append(runs, 0)
    /\ deqCancel' = Append(deqCancel, FALSE)
    /\ mpc' = "exec_lock"
    /\ mcall' = "execute"

ClientExecute ==
    /\ mpc = "client"
    /\ Len(tasks) < MaxTasks
    /\ \E kind \in TaskKinds : Submit([kind |-> kind, path |-> ""])
    /\ UNCHANGED <<size, queue, qlock, notified, wpc, wmsg, thread, joined,
                   dispatched, terminates_sent, counter>>
    /\ UNCHANGED <<trackerVars, procVars, tcall>>

ClientShutdown ==
    /\ mpc = "client"
    /\ mpc' = "shut_lock"
    /\ mcall' = "shutdown"
    /\ UNCHANGED <<size, queue, qlock, notified, wpc, wmsg, thread, joined, tasks,
                   tstate, runs, dispatched, deqCancel, terminates_sent, counter>>
    /\ UNCHANGED <<trackerVars, procVars, tcall>>

ClientDrop ==
    /\ mpc = "client"
    /\ mpc' = "drop_lock"
    /\ mcall' = "drop"
    /\ UNCHANGED <<size, queue, qlock, notified, wpc, wmsg, thread, joined, tasks,
                   tstate, runs, dispatched, deqCancel, terminates_sent, counter>>
    /\ UNCHANGED <<trackerVars, procVars, tcall>>

\* A tracker as ProgressTracker::new builds it (progress_tracker.rs 35-44)
NewTracker ==
    [completed_analyses |-> <<>>, total_files |-> 0, files_completed |-> 0,
     total_errors |-> 0, errors_log |-> <<>>]

NoSummary == [total_files |-> 0, files_completed |-> 0, total_errors |-> 0]

\* The pool of ThreadPool::new(n) (thread_pool.rs 86-102): n workers at `pc`,
\* an empty queue.
PoolNew(n, pc) ==
    /\ size = n
    /\ queue = <<>>
    /\ qlock = Free
    /\ notified = {}
    /\ wpc = [w \in {WorkerIds[i] : i \in 1..n} |-> pc]
    /\ wmsg = [w \in {WorkerIds[i] : i \in 1..n} |-> NoMessage]
    /\ thread = [w \in {WorkerIds[i] : i \in 1..n} |-> TRUE]
    /\ joined = 0
    /\ tasks = <<>>
    /\ tstate = <<>>
    /\ runs = <<>>
    /\ dispatched = <<>>
    /\ deqCancel = <<>>
    /\ terminates_sent = 0
    /\ counter = 0

TrackerIdle ==
    /\ tracker = NewTracker
    /\ tlock = Free
    /\ cancel_flag = FALSE

ProcessIdle(d, l) ==
    /\ wres = [w \in {WorkerIds[i] : i \in 1..size} |-> NoAnalysis]
    /\ CANCEL_REQUESTED = FALSE
    /\ rpc = "not_started"
    /\ summary = NoSummary
    /\ discovered = d
    /\ limit = l

PoolInit ==
    /\ \E n \in 0..MaxWorkers : PoolNew(n, "unspawned")
    /\ mpc = "new"
    /\ mcall = "none"
    /\ TrackerIdle
    /\ ProcessIdle(0, 0)
    /\ tcall = <<>>

PoolNext ==
    \/ \E w \in Workers : WorkerLoop(w)
    \/ \E w \in Workers : TaskIncr(w)
    \/ \E w \in Workers : TaskPanic(w)
    \/ PoolMethods
    \/ ClientNew
    \/ ClientExecute
    \/ ClientShutdown
    \/ ClientDrop

PoolSpec == PoolInit /\ [][PoolNext]_vars


\* ------------------------------------------------------------- the tracker
\* progress_tracker.rs; a FileAnalysis is [filename, errors] here (models.rs 40-48).

\* ProgressTracker::set_total_files
set_total_files(t, total) == [t EXCEPT !.total_files = total]

\* the "{filename}: {error}" lines record_completion pushes for one analysis
ErrorLines(analysis) ==
    [i \in 1..Len(analysis.errors) |-> <<analysis.filename, analysis.errors[i]>>]

\* ProgressTracker::record_completion
record_no_count(t, analysis) ==
    [t EXCEPT !.total_errors = @ + Len(analysis.errors),
              !.errors_log = @ \o ErrorLines(analysis),
              !.completed_analyses = Append(@, analysis)]

record_no_errors(t, analysis) ==
    [t EXCEPT !.files_completed = @ + 1,
              !.errors_log = @ \o ErrorLines(analysis),
              !.completed_analyses = Append(@, analysis)]

\* lines 53-62: the counters and the error log
record_counts(t, analysis) ==
    [t EXCEPT !.files_completed = @ + 1,
              !.total_errors = @ + Len(analysis.errors),
              !.errors_log = @ \o ErrorLines(analysis)]

\* line 64: the analysis is pushed
push_dropped(t, analysis) == t

record_push(t, analysis) ==
    [t EXCEPT !.completed_analyses = Append(@, analysis)]

record_completion(t, analysis) ==
    [t EXCEPT !.files_completed = @ + 1,
              !.total_errors = @ + Len(analysis.errors),
              !.errors_log = @ \o ErrorLines(analysis),
              !.completed_analyses = Append(@, analysis)]

\* what a SharedProgressTracker and its clones share (lines 134-137, 204-211):
\* the tracker behind the mutex and the cancel flag
Shared(t, flag) == [inner |-> t, cancel_flag |-> flag]

\* SharedProgressTracker::is_cancelled
is_cancelled(self) == self.cancel_flag

cancel_toggles(self) == [self EXCEPT !.cancel_flag = ~@]

cancel_resets(self) == [inner |-> NewTracker, cancel_flag |-> TRUE]

\* cancel() leaving the flag as it is
cancel_noop(self) == self

\* SharedProgressTracker::cancel
cancel(self) == [self EXCEPT !.cancel_flag = TRUE]

\* ------------------------------------------------------------- f64 arithmetic
\* progress_percentage computes in f64 (progress_tracker.rs 68-74).  A finite
\* f64 >= 0 is [m, e]: m its 53-digit binary significand, held as three limbs
\* of LimbBits digits, least significant first, the last one with the leading
\* digit (2^16 <= m[3] < 2^17); e the weight of the least significant digit.
\* The value is (m[1] + m[2] * Limb + m[3] * Limb^2) * 2^e; 0.0 is Zero.  An
\* operation rounds its exact result to the nearest f64, ties to even.
\* Operands are integers below 2^12, which f64 holds exactly and which keep
\* every intermediate product inside TLC's integers.

Limb == 2 ^ LimbBits

TopBits == Precision - 2 * LimbBits

Zero == [m |-> <<0, 0, 0>>, e |-> 0]

\* the number of binary digits of n < Limb
BitLen(n) == Cardinality({k \in 0..(LimbBits - 1) : 2 ^ k <= n})

\* m + 1 on limbs
Increment(m) ==
    IF m[1] + 1 < Limb THEN <<m[1] + 1, m[2], m[3]>>
    ELSE IF m[2] + 1 < Limb THEN <<0, m[2] + 1, m[3]>>
    ELSE <<0, 0, m[3] + 1>>

\* the nearest f64 to P * 2^e (plus a fraction of 2^e when `sticky`), where
\* P = p[1] + p[2] * Limb + p[3] * Limb^2 + p[4] * Limb^3 has at least
\* Precision digits
RoundF64(p, sticky, e) ==
    LET len   == IF p[4] > 0 THEN 3 * LimbBits + BitLen(p[4])
                             ELSE 2 * LimbBits + BitLen(p[3])
        drop  == len - Precision
        below == 2 ^ drop
        kept  == [i \in 1..3 |-> (p[i] \div below) + (p[i + 1] % below) * (Limb \div below)]
        guard == IF drop = 0 THEN 0 ELSE (p[1] \div 2 ^ (drop - 1)) % 2
        rest  == sticky \/ (drop > 1 /\ p[1] % 2 ^ (drop - 1) # 0)
        up    == Increment(kept)
    IN  IF guard = 1 /\ (rest \/ kept[1] % 2 = 1)
        THEN IF up[3] = 2 ^ TopBits
             THEN [m |-> <<0, 0, 2 ^ (TopBits - 1)>>, e |-> e + drop + 1]
             ELSE [m |-> up, e |-> e + drop]
        ELSE [m |-> <<kept[1], kept[2], kept[3]>>, e |-> e + drop]

\* n and d scaled by powers of two until 1 <= n/d < 2; k is the power taken out
RECURSIVE Normalised(_, _, _)
Normalised(n, d, k) ==
    IF n >= 2 * d THEN Normalised(n, 2 * d, k + 1)
    ELSE IF n < d THEN Normalised(2 * n, d, k - 1)
    ELSE [n |-> n, d |-> d, k |-> k]

\* `a as f64 / b as f64` for natural numbers a and b > 0: the first
\* Precision + 1 digits of the quotient by long division, a limb at a time,
\* then rounded
DivF64(a, b) ==
    IF a = 0 THEN Zero
    ELSE LET s  == Normalised(a, b, 0)
             c3 == (s.n * 2 ^ TopBits) \div s.d
             r3 == (s.n * 2 ^ TopBits) % s.d
             c2 == (r3 * Limb) \div s.d
             r2 == (r3 * Limb) % s.d
             c1 == (r2 * Limb) \div s.d
             r1 == (r2 * Limb) % s.d
         IN  RoundF64(<<c1, c2, c3, 0>>, r1 # 0, s.k - Precision)

\* `x * n` for an f64 x and a natural number n that f64 holds exactly (100.0):
\* the exact product on limbs, then rounded
MulF64(x, n) ==
    IF x = Zero \/ n = 0 THEN Zero
    ELSE LET t1 == x.m[1] * n
             t2 == x.m[2] * n + t1 \div Limb
             t3 == x.m[3] * n + t2 \div Limb
         IN  RoundF64(<<t1 % Limb, t2 % Limb, t3 % Limb, t3 \div Limb>>, FALSE, x.e)

percentage_capped(t) ==
    IF t.total_files = 0
    THEN Zero
    ELSE MulF64(DivF64(IF t.files_completed > t.total_files
                       THEN t.total_files ELSE t.files_completed,
                       t.total_files), 100)

\* ProgressTracker::progress_percentage
progress_percentage(t) ==
    IF t.total_files = 0
    THEN Zero
    ELSE MulF64(DivF64(t.files_completed, t.total_files), 100)

\* ProgressTracker::get_summary: the counters of the summary (elapsed_time is
\* left out).  These are all the reporter and the tests of the tracker's API
\* read; the summary's progress_percentage is carried by PercentSummary.
get_summary(t) ==
    [total_files |-> t.total_files, files_completed |-> t.files_completed,
     total_errors |-> t.total_errors]

\* ProgressTracker::get_summary with its progress_percentage
get_summary_percentage(t) ==
    [total_files |-> t.total_files, files_completed |-> t.files_completed,
     total_errors |-> t.total_errors,
     progress_percentage |-> progress_percentage(t)]

\* ------------------------------------------------------------- file_processor.rs
\* The operating system's answers to the calls analyze_file makes on one path
\* are its input `fs`: try_exists (line 27), validate_metadata (line 30),
\* metadata (line 80), open (line 101) and lines, the results the BufReader's
\* lines() yields (line 123).  A call that is not made has no answer.

NoError == "none"

NotCalled == "not_called"

\* Ok(Metadata) of fs::metadata: the file type and len()
Metadata(file_type, len) == [err |-> NoError, file_type |-> file_type, len |-> len]

\* Err(io::Error) of fs::metadata
MetadataErr(kind) == [err |-> kind, file_type |-> "none", len |-> 0]

MetadataNotCalled == MetadataErr(NotCalled)

is_dir(metadata) == metadata.file_type = "dir"

is_file(metadata) == metadata.file_type = "file"

\* one item of reader.lines(): Ok(line_content) or Err(e)
OkLine(line_content) == [ok |-> TRUE, content |-> line_content]

ErrLine == [ok |-> FALSE, content |-> <<>>]

\* the characters of the modelled files: a capital letter and a blank
Alphabet == {"A", " "}

is_alphabetic(ch) == ch \in {"A", "a"}

is_whitespace(ch) == ch = " "

\* char::to_lowercase yields the characters of the lower-case form
to_lowercase(ch) ==
    CASE ch = "A" -> <<"a">>
      [] ch = "D" -> <<"d">>
      [] ch = "M" -> <<"m">>
      [] ch = "T" -> <<"t">>
      [] ch = "X" -> <<"x">>
      [] OTHER -> <<ch>>

\* validate_file_path, checking the path only after the file system
validate_exists_first(path, fs) ==
    IF fs.try_exists = "false" THEN Err("FileNotFound")
    ELSE IF fs.try_exists # "true" THEN Err(from(fs.try_exists))
    ELSE IF path = "" THEN Err("InvalidPath")
    ELSE IF fs.validate_metadata.err # NoError
         THEN Err(from(fs.validate_metadata.err))
    ELSE IF is_dir(fs.validate_metadata) THEN Err("DirectoryError")
    ELSE Ok(<<>>)

\* validate_file_path (file_processor.rs 18-59)
validate_file_path(path, fs) ==
    IF path = "" THEN Err("InvalidPath")                        \* lines 20-24
    ELSE IF fs.try_exists = "true"
         THEN IF fs.validate_metadata.err = NoError              \* line 30
              THEN IF is_dir(fs.validate_metadata)
                   THEN Err("DirectoryError")                    \* lines 33-38
                   ELSE Ok(<<>>)                                 \* line 40
              ELSE Err(from(fs.validate_metadata.err))           \* lines 42-45
    ELSE IF fs.try_exists = "false"
         THEN Err("FileNotFound")                                \* lines 48-53
    ELSE Err(from(fs.try_exists))                                \* lines 54-57

\* line_content.split(' '): a segment starts at the line's start and after
\* every blank, empty segments included
split_on_blank(line_content) ==
    {0} \cup {i \in DOMAIN line_content : is_whitespace(line_content[i])}

\* line_content.split_whitespace(): the positions where a word starts
split_whitespace(line_content) ==
    {i \in DOMAIN line_content :
        /\ ~is_whitespace(line_content[i])
        /\ i = 1 \/ is_whitespace(line_content[i - 1])}

\* lines 135-144: the map keys one character is counted under
CountedAs(ch) == IF is_alphabetic(ch) THEN to_lowercase(ch) ELSE <<ch>>

\* lines 134-145: every character of the line adds one to each of its keys
count_chars(char_frequencies, line_content) ==
    LET entries == UNION {{<<i, j>> : j \in DOMAIN CountedAs(line_content[i])} :
                          i \in DOMAIN line_content}
        key(e) == CountedAs(line_content[e[1]])[e[2]]
        keys == {key(e) : e \in entries}
    IN  [c \in (DOMAIN char_frequencies) \cup keys |->
            (IF c \in DOMAIN char_frequencies THEN char_frequencies[c] ELSE 0)
            + Cardinality({e \in entries : key(e) = c})]

\* calculate_stats line 121
MAX_LINE_ERRORS == 10

\* calculate_stats before its loop (lines 119-121)
ReadStart(stats) == [stats |-> stats, error_count |-> 0, result |-> Ok(<<>>)]

\* the loop body, counting every read failure of the file and not the
\* failures in a row
ReadLine_no_reset(s, line_result) ==
    IF ~s.result.ok THEN s
    ELSE IF line_result.ok
    THEN [s EXCEPT
            !.stats.line_count = @ + 1,
            !.stats.word_count =
                @ + Cardinality(split_whitespace(line_result.content)),
            !.stats.char_frequencies = count_chars(@, line_result.content)]
    ELSE [s EXCEPT
            !.error_count = @ + 1,
            !.result = IF s.error_count + 1 > MAX_LINE_ERRORS
                       THEN Err("CorruptedFile")
                       ELSE @]

\* one pass of the loop body (lines 124-169); nothing more is read once line 161
\* has returned
ReadLine(s, line_result) ==
    IF ~s.result.ok THEN s
    ELSE IF line_result.ok
    THEN [s EXCEPT
            !.stats.line_count = @ + 1,
            !.error_count = 0,
            !.stats.word_count =
                @ + Cardinality(split_whitespace(line_result.content)),
            !.stats.char_frequencies = count_chars(@, line_result.content)]
    ELSE [s EXCEPT
            !.error_count = @ + 1,
            !.result = IF s.error_count + 1 > MAX_LINE_ERRORS
                       THEN Err("CorruptedFile")
                       ELSE @]

\* the loop of lines 123-170 over the first n line results
RECURSIVE ReadLines(_, _, _)
ReadLines(lines, n, stats) ==
    IF n = 0 THEN ReadStart(stats)
    ELSE CHOOSE after \in {ReadLine(s, lines[n]) :
                           s \in {ReadLines(lines, n - 1, stats)}} : TRUE

\* calculate_stats, taking the end of the file for one more, empty line
calculate_stats_counts_eof(lines, stats) ==
    LET s == ReadLines(Append(lines, OkLine(<<>>)), Len(lines) + 1, stats)
    IN  [result |-> s.result, stats |-> s.stats]

\* FileAnalyzer::calculate_stats (file_processor.rs 118-173): its Result, and
\* the stats it has written through `&mut FileStats` by then
calculate_stats(lines, stats) ==
    LET s == ReadLines(lines, Len(lines), stats)
    IN  [result |-> s.result, stats |-> s.stats]

\* analyze_file, handing a failed validation to its caller
analyze_file_raises(file_path, fs) ==
    LET valid == validate_file_path(file_path, fs)
    IN  IF valid.ok THEN Ok(NewFileAnalysis(file_path)) ELSE valid

\* analyze_file without the return of line 75: after a failed validation it
\* goes on to fs::metadata, which fails as well and adds a second error
analyze_file_keeps_going(file_path, fs) ==
    LET analysis == NewFileAnalysis(file_path)
        valid == validate_file_path(file_path, fs)
        sized == [analysis EXCEPT !.stats.size_bytes = fs.metadata.len]
        read == calculate_stats(fs.lines, sized.stats)
        counted == [sized EXCEPT !.stats = read.stats]
    IN  IF ~valid.ok
        THEN Ok(add_error(add_error(analysis, valid.value), from("NotFound")))
        ELSE IF fs.metadata.err # NoError
             THEN Ok(add_error(analysis, from(fs.metadata.err)))
        ELSE IF ~is_file(fs.metadata)
             THEN Ok(add_error(analysis, "DirectoryError"))
        ELSE IF fs.open # NoError
             THEN Ok(add_error(sized, from(fs.open)))
        ELSE IF read.result.ok
             THEN Ok(counted)
        ELSE Ok(add_error(counted, read.result.value))

\* FileAnalyzer::analyze_file (file_processor.rs 63-117)
analyze_file(file_path, fs) ==
    LET analysis == NewFileAnalysis(file_path)                   \* line 65
        valid == validate_file_path(file_path, fs)               \* line 70
        sized == [analysis EXCEPT !.stats.size_bytes = fs.metadata.len]
        read == calculate_stats(fs.lines, sized.stats)           \* line 103
        counted == [sized EXCEPT !.stats = read.stats]
    IN  IF ~valid.ok THEN Ok(add_error(analysis, valid.value))   \* lines 72-76
        ELSE IF fs.metadata.err # NoError
             THEN Ok(add_error(analysis, from(fs.metadata.err))) \* lines 93-97
        ELSE IF ~is_file(fs.metadata)
             THEN Ok(add_error(analysis, "DirectoryError"))      \* lines 83-89
        ELSE IF fs.open # NoError
             THEN Ok(add_error(sized, from(fs.open)))            \* lines 110-112
        ELSE IF read.result.ok
             THEN Ok(counted)                                    \* line 104
        ELSE Ok(add_error(counted, read.result.value))           \* lines 105-107

\* ------------------------------------------------------------- process_files' task
\* main_helper.rs 539-568: the closure submitted for each file.

\* The files of this run that are gone when their task analyses them.
Unreadable == {"f2", "f4"}

\* The answers the run's file system gives for one of its files
Disk(path) ==
    IF path \in Unreadable
    THEN [try_exists |-> "false", validate_metadata |-> MetadataNotCalled,
          metadata |-> MetadataNotCalled, open |-> NotCalled, lines |-> <<>>]
    ELSE [try_exists |-> "true", validate_metadata |-> Metadata("file", 1),
          metadata |-> Metadata("file", 1), open |-> NoError,
          lines |-> <<OkLine(<<"A">>)>>]

\* main_helper.rs 546-559: the analysis the closure goes on with, from either
\* arm of its match on analyze_file's Result
TaskAnalysis(file_path) ==
    LET result == analyze_file(file_path, Disk(file_path))
    IN  IF result.ok THEN result.value
        ELSE add_error(NewFileAnalysis(file_path), result.value)

InTask(w) == wpc[w] \in {"task", "analyzing", "record_lock", "recording", "pushing"}

\* line 541: the first load of CANCEL_REQUESTED; set: the task returns
TaskCheck1(w) ==
    /\ wpc[w] = "task"
    /\ tasks[wmsg[w].id].kind = "file"
    /\ IF CANCEL_REQUESTED
       THEN /\ wpc' = [wpc EXCEPT ![w] = "loop"]
            /\ tstate' = [tstate EXCEPT ![wmsg[w].id] = "skipped_before"]
            /\ wmsg' = [wmsg EXCEPT ![w] = NoMessage]
       ELSE /\ wpc' = [wpc EXCEPT ![w] = "analyzing"]
            /\ UNCHANGED <<tstate, wmsg>>
    /\ UNCHANGED <<size, queue, qlock, notified, thread, mpc, mcall, joined,
                   tasks, runs, dispatched, deqCancel, terminates_sent, counter>>
    /\ UNCHANGED <<trackerVars, procVars, tcall>>

\* the closure without the second load of CANCEL_REQUESTED: it always records
TaskCheck2_unchecked(w) ==
    /\ wpc[w] = "analyzing"
    /\ wres' = [wres EXCEPT ![w] = TaskAnalysis(tasks[wmsg[w].id].path)]
    /\ wpc' = [wpc EXCEPT ![w] = "record_lock"]
    /\ UNCHANGED <<size, queue, qlock, notified, thread, mpc, mcall, joined,
                   tasks, tstate, wmsg, runs, dispatched, deqCancel,
                   terminates_sent, counter>>
    /\ UNCHANGED <<trackerVars, CANCEL_REQUESTED, rpc, summary,
                   discovered, limit, tcall>>

\* lines 546-549: analyze_file returns, then the second load of CANCEL_REQUESTED
\* (set: the analysis is dropped)
TaskCheck2(w) ==
    /\ wpc[w] = "analyzing"
    /\ IF CANCEL_REQUESTED
       THEN /\ wpc' = [wpc EXCEPT ![w] = "loop"]
            /\ tstate' = [tstate EXCEPT ![wmsg[w].id] = "skipped_after"]
            /\ wmsg' = [wmsg EXCEPT ![w] = NoMessage]
            /\ UNCHANGED wres
       ELSE /\ wres' = [wres EXCEPT ![w] = TaskAnalysis(tasks[wmsg[w].id].path)]
            /\ wpc' = [wpc EXCEPT ![w] = "record_lock"]
            /\ UNCHANGED <<tstate, wmsg>>
    /\ UNCHANGED <<size, queue, qlock, notified, thread, mpc, mcall, joined,
                   tasks, runs, dispatched, deqCancel, terminates_sent, counter>>
    /\ UNCHANGED <<trackerVars, CANCEL_REQUESTED, rpc, summary,
                   discovered, limit, tcall>>

\* line 551: progress_inner.clone_inner().lock()
TaskRecordLock(w) ==
    /\ wpc[w] = "record_lock"
    /\ MutexFree(tlock)
    /\ tlock' = w
    /\ wpc' = [wpc EXCEPT ![w] = "recording"]
    /\ UNCHANGED <<size, queue, qlock, notified, wmsg, thread, mpc, mcall, joined,
                   tasks, tstate, runs, dispatched, deqCancel, terminates_sent,
                   counter>>
    /\ UNCHANGED <<tracker, cancel_flag, procVars, tcall>>

\* line 552, progress_tracker.rs 53-62: record_completion updates the counters
\* and the error log
TaskRecord(w) ==
    /\ wpc[w] = "recording"
    /\ tracker' = record_counts(tracker, wres[w])
    /\ wpc' = [wpc EXCEPT ![w] = "pushing"]
    /\ UNCHANGED <<size, queue, qlock, notified, wmsg, thread, mpc, mcall, joined,
                   tasks, tstate, runs, dispatched, deqCancel, terminates_sent,
                   counter>>
    /\ UNCHANGED <<tlock, cancel_flag, procVars, tcall>>

\* lines 552-553, progress_tracker.rs 64: the analysis is pushed, the guard is
\* dropped
TaskRecordPush(w) ==
    /\ wpc[w] = "pushing"
    /\ tracker' = record_push(tracker, wres[w])
    /\ tlock' = Free
    /\ tstate' = [tstate EXCEPT ![wmsg[w].id] = "recorded"]
    /\ wmsg' = [wmsg EXCEPT ![w] = NoMessage]
    /\ wres' = [wres EXCEPT ![w] = NoAnalysis]
    /\ wpc' = [wpc EXCEPT ![w] = "loop"]
    /\ UNCHANGED <<size, queue, qlock, notified, thread, mpc, mcall, joined,
                   tasks, runs, dispatched, deqCancel, terminates_sent, counter>>
    /\ UNCHANGED <<cancel_flag, CANCEL_REQUESTED, rpc, summary,
                   discovered, limit, tcall>>

FileTask(w) ==
    \/ TaskCheck1(w)
    \/ TaskCheck2(w)
    \/ TaskRecordLock(w)
    \/ TaskRecord(w)
    \/ TaskRecordPush(w)

\* ------------------------------------------------------------- the reporter
\* main_helper.rs 334-357: progress_reporter

\* lines 338-340: the sleep ends, get_summary takes the tracker mutex
ReporterLock ==
    /\ rpc = "sleep"
    /\ MutexFree(tlock)
    /\ tlock' = ReporterThread
    /\ rpc' = "locked"
    /\ UNCHANGED <<poolVars, tracker, cancel_flag, wres, CANCEL_REQUESTED, summary, discovered, limit, tcall>>

\* line 340: the summary is copied and the mutex released
ReporterSnapshot ==
    /\ rpc = "locked"
    /\ summary' = get_summary(tracker)
    /\ tlock' = Free
    /\ rpc' = "check"
    /\ UNCHANGED <<poolVars, tracker, cancel_flag, wres, CANCEL_REQUESTED, discovered, limit, tcall>>

ReporterOnlyOnCancel(s, cancelled) == cancelled

\* line 351: the reporter's exit condition
ReporterDone(s, cancelled) == s.files_completed >= s.total_files \/ cancelled

\* lines 342-354: leave the loop or sleep again (the summary goes out of scope).
\* The local last-count of lines 335-348 only decides whether the progress bar
\* is printed again and is not part of the state.
ReporterCheck ==
    /\ rpc = "check"
    /\ rpc' = IF ReporterDone(summary, cancel_flag) THEN "exited" ELSE "sleep"
    /\ summary' = NoSummary
    /\ UNCHANGED <<poolVars, trackerVars, wres, CANCEL_REQUESTED,
                   discovered, limit, tcall>>

Reporter ==
    \/ ReporterLock
    \/ ReporterSnapshot
    \/ ReporterCheck

\* ------------------------------------------------------------- process_files
\* main_helper.rs 494-583

\* line 512-513: files.into_iter().take(limit), actual_count
\* files.into_iter().take(limit) taking every file
AllDiscovered == discovered

ActualCount == IF limit < discovered THEN limit ELSE discovered

\* line 523: process_files going on with the tracker the caller already has
KeptTracker == tracker

\* line 523: SharedProgressTracker::new(), the tracker of this call
PassTracker == NewTracker

\* lines 502-509: nothing discovered: return a new tracker
PF_Discover ==
    /\ mpc = "pf_start"
    /\ IF discovered = 0
       THEN /\ mpc' = "returned"
            /\ tracker' = NewTracker
            /\ cancel_flag' = FALSE
       ELSE /\ mpc' = "pf_setup"
            /\ UNCHANGED <<tracker, cancel_flag>>
    /\ UNCHANGED <<size, queue, qlock, notified, wpc, wmsg, thread, mcall, joined,
                   tasks, tstate, runs, dispatched, deqCancel, terminates_sent,
                   counter>>
    /\ UNCHANGED <<tlock, procVars, tcall>>

\* lines 522-524: ThreadPool::new spawns the workers; a new tracker, with a new
\* cancel flag, gets its total
PF_Setup ==
    /\ mpc = "pf_setup"
    /\ wpc' = [w \in Workers |-> "loop"]
    /\ tracker' = set_total_files(PassTracker, ActualCount)
    /\ cancel_flag' = FALSE
    /\ mpc' = "pf_spawn"
    /\ UNCHANGED <<size, queue, qlock, notified, wmsg, thread, mcall, joined,
                   tasks, tstate, runs, dispatched, deqCancel, terminates_sent,
                   counter>>
    /\ UNCHANGED <<tlock, procVars, tcall>>

\* lines 530-533: the reporter thread is spawned
PF_SpawnReporter ==
    /\ mpc = "pf_spawn"
    /\ rpc' = "sleep"
    /\ mpc' = "client"
    /\ UNCHANGED <<size, queue, qlock, notified, wpc, wmsg, thread, mcall, joined,
                   tasks, tstate, runs, dispatched, deqCancel, terminates_sent,
                   counter>>
    /\ UNCHANGED <<trackerVars, wres, CANCEL_REQUESTED, summary,
                   discovered, limit, tcall>>

\* lines 536-569: one execute() per file to process, in discovery order
PF_Submit ==
    /\ mpc = "client"
    /\ Len(tasks) < ActualCount
    /\ Submit([kind |-> "file", path |-> FileNames[Len(tasks) + 1]])
    /\ UNCHANGED <<size, queue, qlock, notified, wpc, wmsg, thread, joined,
                   dispatched, terminates_sent, counter>>
    /\ UNCHANGED <<trackerVars, procVars, tcall>>

\* line 572: pool.shutdown()
PF_Shutdown ==
    /\ mpc = "client"
    /\ Len(tasks) = ActualCount
    /\ mpc' = "shut_lock"
    /\ mcall' = "shutdown"
    /\ UNCHANGED <<size, queue, qlock, notified, wpc, wmsg, thread, joined, tasks,
                   tstate, runs, dispatched, deqCancel, terminates_sent, counter>>
    /\ UNCHANGED <<trackerVars, procVars, tcall>>

\* line 575: reporter_handle.join()
PF_JoinReporter ==
    /\ mpc = "shutdown_returned"
    /\ rpc = "exited"
    /\ mpc' = "pf_check_cancel"
    /\ UNCHANGED <<size, queue, qlock, notified, wpc, wmsg, thread, mcall, joined,
                   tasks, tstate, runs, dispatched, deqCancel, terminates_sent,
                   counter>>
    /\ UNCHANGED <<trackerVars, procVars, tcall>>

\* lines 578-582: progress.cancel() when the global flag is set; return
PF_CheckCancel ==
    /\ mpc = "pf_check_cancel"
    /\ LET self == IF CANCEL_REQUESTED THEN cancel(Shared(tracker, cancel_flag))
                   ELSE Shared(tracker, cancel_flag)
       IN  /\ tracker' = self.inner
           /\ cancel_flag' = self.cancel_flag
    /\ mpc' = "returned"
    /\ UNCHANGED <<size, queue, qlock, notified, wpc, wmsg, thread, mcall, joined,
                   tasks, tstate, runs, dispatched, deqCancel, terminates_sent,
                   counter>>
    /\ UNCHANGED <<tlock, procVars, tcall>>

ProcessFiles ==
    \/ PF_Discover
    \/ PF_Setup
    \/ PF_SpawnReporter
    \/ PF_Submit
    \/ PF_Shutdown
    \/ PF_JoinReporter
    \/ PF_CheckCancel

\* main_helper.rs 19: the Ctrl+C handler stores true into CANCEL_REQUESTED.  (The
\* handler then prints and ends the process; the threads run on until it does.)
SetCancel ==
    /\ ~CANCEL_REQUESTED
    /\ mpc # "returned"
    /\ CANCEL_REQUESTED' = TRUE
    /\ UNCHANGED <<poolVars, trackerVars, wres, rpc, summary,
                   discovered, limit, tcall>>

Init ==
    /\ \E n \in 1..MaxWorkers : PoolNew(n, "unspawned")
    /\ mpc = "pf_start"
    /\ mcall = "none"
    /\ TrackerIdle
    /\ \E d \in 0..MaxFiles, l \in 1..MaxLimit : ProcessIdle(d, l)
    /\ tcall = <<>>

Next ==
    \/ \E w \in Workers : WorkerLoop(w)
    \/ \E w \in Workers : FileTask(w)
    \/ PoolMethods
    \/ ProcessFiles
    \/ Reporter
    \/ SetCancel

Spec == Init /\ [][Next]_vars


\* ------------------------------------------------------------- the tracker's API
\* progress_tracker.rs 139-196: SharedProgressTracker, called from any thread
\* that holds a clone.  A call that takes the mutex holds it until it returns.

TrackerClients == {"c1", "c2"}

\* the analyses a caller may hand to record_completion (FileAnalysis::add_error
\* is public: a record may carry several errors)
Analyses ==
    {NewFileAnalysis("f1"),
     add_error(NewFileAnalysis("f2"), "FileNotFound"),
     add_error(add_error(NewFileAnalysis("f1"), "IoError"), "CorruptedFile")}

NoCall == [op |-> "none", total |-> 0, analysis |-> NoAnalysis]

\* lines 150, 157, 164: self.inner.lock() of set_total_files, record_completion
\* and get_summary
TrackerCallLock(c) ==
    /\ tcall[c] = NoCall
    /\ tlock = Free
    /\ tlock' = c
    /\ \/ \E total \in 0..MaxTotal :
             tcall' = [tcall EXCEPT ![c] = [NoCall EXCEPT !.op = "set_total_files",
                                                          !.total = total]]
       \/ /\ Len(tracker.completed_analyses) < MaxRecords
          /\ \E analysis \in Analyses :
                tcall' = [tcall EXCEPT ![c] = [NoCall EXCEPT !.op = "record_completion",
                                                             !.analysis = analysis]]
       \/ tcall' = [tcall EXCEPT ![c] = [NoCall EXCEPT !.op = "get_summary"]]
    /\ UNCHANGED <<poolVars, tracker, cancel_flag, procVars>>

\* lines 149-153
TrackerSetTotal(c) ==
    /\ tcall[c].op = "set_total_files"
    /\ tracker' = set_total_files(tracker, tcall[c].total)
    /\ tlock' = Free
    /\ tcall' = [tcall EXCEPT ![c] = NoCall]
    /\ UNCHANGED <<poolVars, cancel_flag, procVars>>

\* lines 156-160
TrackerRecord(c) ==
    /\ tcall[c].op = "record_completion"
    /\ tracker' = record_completion(tracker, tcall[c].analysis)
    /\ tlock' = Free
    /\ tcall' = [tcall EXCEPT ![c] = NoCall]
    /\ UNCHANGED <<poolVars, cancel_flag, procVars>>

\* lines 163-165
TrackerSummary(c) ==
    /\ tcall[c].op = "get_summary"
    /\ summary' = get_summary(tracker)
    /\ tlock' = Free
    /\ tcall' = [tcall EXCEPT ![c] = NoCall]
    /\ UNCHANGED <<poolVars, tracker, cancel_flag, wres, CANCEL_REQUESTED, rpc,
                   discovered, limit>>

\* lines 183-185: cancel() stores true into the flag; no mutex
TrackerCancel(c) ==
    /\ tcall[c] = NoCall
    /\ LET self == cancel(Shared(tracker, cancel_flag))
       IN  /\ tracker' = self.inner
           /\ cancel_flag' = self.cancel_flag
    /\ UNCHANGED <<poolVars, tlock, procVars, tcall>>

TrackerInit ==
    /\ PoolNew(1, "unspawned")
    /\ mpc = "none"
    /\ mcall = "none"
    /\ TrackerIdle
    /\ ProcessIdle(0, 0)
    /\ tcall = [c \in TrackerClients |-> NoCall]

TrackerNext ==
    \E c \in TrackerClients :
        \/ TrackerCallLock(c)
        \/ TrackerSetTotal(c)
        \/ TrackerRecord(c)
        \/ TrackerSummary(c)
        \/ TrackerCancel(c)

TrackerSpec == TrackerInit /\ [][TrackerNext]_vars

\* ------------------------------------------------------------- a poisoned tracker
\* progress_tracker.rs 148-175.  A thread that panics while it holds the guard
\* of `inner` poisons the mutex for good: from then on lock() returns Err at
\* once, to every caller.

Poisoned == "poisoned"

Overflow == "overflow"

\* Option<T>
None == <<>>

Some(v) == <<v>>

LockAlwaysOk(m) == TRUE

\* self.inner.lock() is Ok(guard) unless the mutex is poisoned
LockOk(m) == m # Poisoned

\* SharedProgressTracker::set_total_files: `if let Ok(mut tracker) = ...`
shared_set_total_files(t, m, total) ==
    IF LockOk(m) THEN set_total_files(t, total) ELSE t

\* SharedProgressTracker::record_completion
shared_record_completion(t, m, analysis) ==
    IF LockOk(m) THEN record_completion(t, analysis) ELSE t

\* SharedProgressTracker::get_summary: `.lock().ok().map(..)`
shared_get_summary(t, m) ==
    IF LockOk(m) THEN Some(get_summary(t)) ELSE None

\* SharedProgressTracker::get_completed_analyses
shared_get_completed_analyses(t, m) ==
    IF LockOk(m) THEN Some(t.completed_analyses) ELSE None

\* SharedProgressTracker::get_errors
shared_get_errors(t, m) ==
    IF LockOk(m) THEN Some(t.errors_log) ELSE None

\* the thread that holds the guard panics: the guard is dropped by the unwinding
\* and the mutex is poisoned
TrackerPanic(c) ==
    /\ tcall[c] # NoCall
    /\ tlock = c
    /\ tlock' = Poisoned
    /\ tcall' = [tcall EXCEPT ![c] = NoCall]
    /\ UNCHANGED <<poolVars, tracker, cancel_flag, procVars>>

\* a mutating call on the poisoned tracker
TrackerPoisonedWrite(c) ==
    /\ tcall[c] = NoCall
    /\ tlock = Poisoned
    /\ \/ \E total \in 0..MaxTotal :
             tracker' = shared_set_total_files(tracker, tlock, total)
       \/ \E analysis \in Analyses :
             tracker' = shared_record_completion(tracker, tlock, analysis)
    /\ UNCHANGED <<poolVars, tlock, cancel_flag, procVars, tcall>>

\* a reading call on the poisoned tracker; the caller keeps what it returned
TrackerPoisonedRead(c) ==
    /\ tcall[c] = NoCall
    /\ tlock = Poisoned
    /\ \/ summary' = shared_get_summary(tracker, tlock)
       \/ summary' = shared_get_completed_analyses(tracker, tlock)
       \/ summary' = shared_get_errors(tracker, tlock)
    /\ UNCHANGED <<poolVars, trackerVars, wres, CANCEL_REQUESTED, rpc,
                   discovered, limit, tcall>>

PoisonNext ==
    \/ TrackerNext
    \/ \E c \in TrackerClients : TrackerPanic(c)
    \/ \E c \in TrackerClients : TrackerPoisonedWrite(c)
    \/ \E c \in TrackerClients : TrackerPoisonedRead(c)

PoisonSpec == TrackerInit /\ [][PoisonNext]_vars

\* ------------------------------------------------------------- the percentage
\* progress_tracker.rs 47-90: one owner of a ProgressTracker sets totals, records
\* analyses and takes summaries, in any order (files_completed may pass
\* total_files).

PercentSetTotal ==
    /\ \E total \in 0..MaxPercentTotal : tracker' = set_total_files(tracker, total)
    /\ UNCHANGED <<poolVars, tlock, cancel_flag, procVars, tcall>>

PercentRecord ==
    /\ tracker.files_completed < MaxPercentDone
    /\ tracker' = record_completion(tracker, TaskAnalysis("f1"))
    /\ UNCHANGED <<poolVars, tlock, cancel_flag, procVars, tcall>>

PercentSummary ==
    /\ summary' = get_summary_percentage(tracker)
    /\ UNCHANGED <<poolVars, trackerVars, wres, CANCEL_REQUESTED, rpc,
                   discovered, limit, tcall>>

PercentInit ==
    /\ PoolNew(1, "unspawned")
    /\ mpc = "none"
    /\ mcall = "none"
    /\ TrackerIdle
    /\ wres = [w \in {WorkerIds[1]} |-> NoAnalysis]
    /\ CANCEL_REQUESTED = FALSE
    /\ rpc = "not_started"
    /\ summary = get_summary_percentage(NewTracker)
    /\ discovered = 0
    /\ limit = 0
    /\ tcall = <<>>

PercentNext ==
    \/ PercentSetTotal
    \/ PercentRecord
    \/ PercentSummary

PercentSpec == PercentInit /\ [][PercentNext]_vars

\* ------------------------------------------------------------- analyze_file alone
\* file_processor.rs 18-173: one call of analyze_file, for every path and every
\* series of answers of the file system.

AnalyzedPaths == {"", "f1"}

\* the lines a file can hold
LineContents == UNION {[1..n -> Alphabet] : n \in 0..MaxLineLen}

\* the files of at most n lines that are read without a failure
RECURSIVE TextFiles(_)
TextFiles(n) ==
    IF n = 0 THEN {<<>>}
    ELSE LET shorter == TextFiles(n - 1)
         IN  shorter \cup {Append(l, OkLine(c)) : l \in shorter, c \in LineContents}

\* a line that is read, or up to MAX_LINE_ERRORS + 1 read failures in a row
LineRuns ==
    {<<OkLine(<<"A">>)>>}
        \cup {[i \in 1..k |-> ErrLine] : k \in 1..(MAX_LINE_ERRORS + 1)}

\* the line results made of at most n runs
RECURSIVE LineResults(_)
LineResults(n) ==
    IF n = 0 THEN {<<>>}
    ELSE LET shorter == LineResults(n - 1)
         IN  shorter \cup {l \o r : l \in shorter, r \in LineRuns}

FileTypes == {"file", "dir", "other"}

\* The answers up to the first call that ends analyze_file.
FileSystems ==
    LET answers(e, vm, m, o, l) ==
            [try_exists |-> e, validate_metadata |-> vm, metadata |-> m,
             open |-> o, lines |-> l]
        Validated == {Metadata(t, 0) : t \in FileTypes \ {"dir"}}
        Regular == {Metadata("file", len) : len \in 0..MaxSize}
    IN  {answers(e, MetadataNotCalled, MetadataNotCalled, NotCalled, <<>>) :
             e \in {"false"} \cup ErrorKinds}
        \cup {answers("true", vm, MetadataNotCalled, NotCalled, <<>>) :
             vm \in {Metadata("dir", 0)} \cup {MetadataErr(k) : k \in ErrorKinds}}
        \cup {answers("true", vm, m, NotCalled, <<>>) :
             vm \in Validated,
             m \in {Metadata(t, 0) : t \in FileTypes \ {"file"}}
                     \cup {MetadataErr(k) : k \in ErrorKinds}}
        \cup {answers("true", vm, m, o, <<>>) :
             vm \in Validated, m \in Regular, o \in ErrorKinds}
        \cup {answers("true", vm, m, NoError, l) :
             vm \in Validated, m \in Regular,
             l \in TextFiles(MaxLines) \cup LineResults(MaxRuns)}

\* the bytes of the first n lines, each with its "\n"; a character of Alphabet
\* is one byte
RECURSIVE LineBytes(_, _)
LineBytes(lines, n) ==
    IF n = 0 THEN 0
    ELSE LineBytes(lines, n - 1) + Len(lines[n].content) + 1

\* The file that metadata (line 80) measured is the file that lines() (line 123)
\* read, whole: every line was read, and len() is the bytes of the lines, the
\* last of which may lack its "\n" when it is not empty.
ReadAsMeasured(fs) ==
    /\ fs.metadata.err = NoError
    /\ fs.open = NoError
    /\ \A i \in DOMAIN fs.lines : fs.lines[i].ok
    /\ LET bytes == LineBytes(fs.lines, Len(fs.lines))
       IN  \/ fs.metadata.len = bytes
           \/ /\ fs.lines # <<>>
              /\ fs.lines[Len(fs.lines)].content # <<>>
              /\ fs.metadata.len = bytes - 1

NoResult == Err("none")

AnalyzeCall(file_path, fs) ==
    [op |-> "analyze_file", file_path |-> file_path, fs |-> fs,
     result |-> NoResult]

AnalyzeInit ==
    /\ PoolNew(1, "unspawned")
    /\ mpc = "none"
    /\ mcall = "none"
    /\ TrackerIdle
    /\ ProcessIdle(0, 0)
    /\ \E file_path \in AnalyzedPaths, fs \in FileSystems :
           tcall = [c \in {"c1"} |-> AnalyzeCall(file_path, fs)]

\* the call runs to its return
AnalyzeFile(c) ==
    /\ tcall[c].op = "analyze_file"
    /\ tcall' = [tcall EXCEPT
                    ![c].op = "returned",
                    ![c].result = analyze_file(tcall[c].file_path, tcall[c].fs)]
    /\ UNCHANGED <<poolVars, trackerVars, procVars>>

AnalyzeNext == \E c \in DOMAIN tcall : AnalyzeFile(c)

AnalyzeSpec == AnalyzeInit /\ [][AnalyzeNext]_vars

\* ------------------------------------------------------------- discovery
\* main_helper.rs 191-247.  A string is the sequence of its characters.  A
\* directory is what read_dir answers: whether it can be read, and its entries
\* in the order they are yielded.  An entry has its file name, what
\* path.metadata() says it is ("file", "dir", "other", or "metadata_error"), or
\* is itself an Err ("entry_error"), and, for a directory, that directory.

\* ProcessorConfig::new (lines 47-50): txt and md
DefaultExtensions == <<<<"t", "x", "t">>, <<"m", "d">>>>

NoDirectory == [readable |-> FALSE, entries |-> <<>>]

Entry(name, kind, directory) == [name |-> name, kind |-> kind, directory |-> directory]

\* the place of the last '.' of a file name, 0 when it has none
LastDot(name) ==
    IF \E i \in DOMAIN name : name[i] = "."
    THEN CHOOSE i \in DOMAIN name :
            name[i] = "." /\ \A j \in (i + 1)..Len(name) : name[j] # "."
    ELSE 0

\* Path::extension: what follows the last '.' of the file name; None when the
\* name has no '.' or only the one it begins with
extension(name) ==
    IF LastDot(name) <= 1 THEN None
    ELSE Some(SubSeq(name, LastDot(name) + 1, Len(name)))

\* <[String]>::contains
contains(strings, string) == \E i \in DOMAIN strings : strings[i] = string

\* dir joined with a file name
Join(dir, name) == dir \o <<"/">> \o name

RECURSIVE discover_files_in_dir(_, _, _, _)
RECURSIVE DiscoverEntries(_, _, _, _, _)

\* the loop of lines 206-246 over the first n entries
DiscoverEntries(dir, entries, n, extensions, files) ==
    IF n = 0 THEN files
    ELSE LET before == DiscoverEntries(dir, entries, n - 1, extensions, files)
             entry == entries[n]
             path == Join(dir, entry.name)
         IN  IF entry.kind = "dir"                                \* lines 214-220
             THEN discover_files_in_dir(path, entry.directory, extensions, before)
             ELSE IF /\ entry.kind = "file"                       \* lines 221-228
                     /\ extension(entry.name) # None
                     /\ contains(extensions, extension(entry.name)[1])
             THEN Append(before, path)
             ELSE before                                          \* lines 231-244

\* discover_files_in_dir (main_helper.rs 203-270): `files` with the files found
\* under `directory`, whose path is `dir`
discover_files_in_dir(dir, directory, extensions, files) ==
    IF directory.readable
    THEN DiscoverEntries(dir, directory.entries, Len(directory.entries),
                         extensions, files)
    ELSE files                                                    \* lines 248-270

\* discover_files (main_helper.rs 191-199), over the first n directories
RECURSIVE DiscoverDirectories(_, _, _)
DiscoverDirectories(directories, n, extensions) ==
    IF n = 0 THEN <<>>
    ELSE discover_files_in_dir(directories[n].path, directories[n].directory,
                               extensions,
                               DiscoverDirectories(directories, n - 1, extensions))

discover_files(directories, extensions) ==
    DiscoverDirectories(directories, Len(directories), extensions)

\* the file names of the run: a.txt, A.TXT, r.Md, m.rs, mk, .md
DiscoveryNames ==
    {<<"a", ".", "t", "x", "t">>, <<"A", ".", "T", "X", "T">>,
     <<"r", ".", "M", "d">>, <<"m", ".", "r", "s">>, <<"m", "k">>,
     <<".", "m", "d">>}

\* entries that are not directories
Leaves ==
    {Entry(name, "file", NoDirectory) : name \in DiscoveryNames}
        \cup {Entry(<<"a", ".", "t", "x", "t">>, kind, NoDirectory) :
                 kind \in {"other", "metadata_error", "entry_error"}}

\* the directory d, unreadable, empty or with one entry
SubDirectories ==
    {Entry(<<"d">>, "dir", directory) :
        directory \in {NoDirectory, [readable |-> TRUE, entries |-> <<>>]}
                        \cup {[readable |-> TRUE, entries |-> <<e>>] : e \in Leaves}}

\* the listings of at most n entries
RECURSIVE Listings(_)
Listings(n) ==
    IF n = 0 THEN {<<>>}
    ELSE LET shorter == Listings(n - 1)
         IN  shorter \cup {Append(l, e) : l \in shorter,
                                           e \in Leaves \cup SubDirectories}

DiscoverCall(directories, extensions) ==
    [op |-> "discover_files", directories |-> directories,
     extensions |-> extensions, files |-> <<>>]

DiscoverInit ==
    /\ PoolNew(1, "unspawned")
    /\ mpc = "none"
    /\ mcall = "none"
    /\ TrackerIdle
    /\ ProcessIdle(0, 0)
    /\ \E entries \in Listings(MaxEntries) :
           tcall = [c \in {"c1"} |->
                       DiscoverCall(<<[path |-> <<"b">>,
                                       directory |-> [readable |-> TRUE,
                                                      entries |-> entries]]>>,
                                    DefaultExtensions)]

\* main_helper.rs 502: the call runs to its return
DiscoverFiles(c) ==
    /\ tcall[c].op = "discover_files"
    /\ LET files == discover_files(tcall[c].directories, tcall[c].extensions)
       IN  /\ tcall' = [tcall EXCEPT ![c].op = "returned", ![c].files = files]
           /\ discovered' = Len(files)
    /\ UNCHANGED <<poolVars, trackerVars, wres, CANCEL_REQUESTED, rpc, summary,
                   limit>>

DiscoverNext == \E c \in DOMAIN tcall : DiscoverFiles(c)

DiscoverSpec == DiscoverInit /\ [][DiscoverNext]_vars

\* ------------------------------------------------------------- main
\* bin/main.rs 49-93: process_files, and once more after a download when fewer
\* analyses completed than were requested.  `tracker` and `cancel_flag` are the
\* SharedProgressTracker that `progress` is bound to; the tracker of a second
\* call takes their place when that call creates it, for nothing reads the
\* first one after line 62.  tcall keeps what main has seen so far.

MainCall(passes, first, downloaded, shown) ==
    [op |-> "main", passes |-> passes, first |-> first,
     downloaded |-> downloaded, shown |-> shown]

\* the first call has not returned yet
NoPass == [returned |-> FALSE, cancelled |-> FALSE, tracker |-> NewTracker]

NothingShown ==
    [printed |-> FALSE, cancelled |-> FALSE, summary |-> None,
     successfully_analyzed |-> None, total_discovered |-> 0, results |-> <<>>]

\* downloader.rs 359-455: every failed download is skipped, the count of the
\* files now present is returned
download_books_to_meet_demand(current_file_count, requested_file_count, newly_downloaded) ==
    IF requested_file_count > current_file_count
    THEN Ok(current_file_count + newly_downloaded)
    ELSE Ok(current_file_count)

\* `a - b` on usize: the difference, or Overflow where b > a (a panic in a debug
\* build, the difference wrapped modulo 2^64 in a release build)
usize_sub(a, b) == IF b > a THEN Overflow ELSE a - b

\* display_results (main_helper.rs 360-420): the banner, the statistics, and the
\* first min(display_count, actual_count) analyses
display_results(self, m, display_count, total_discovered) ==
    LET analyses == shared_get_completed_analyses(self.inner, m)
        show_count == IF analyses = None THEN 0
                      ELSE IF display_count < Len(analyses[1]) THEN display_count
                      ELSE Len(analyses[1])
        stats == shared_get_summary(self.inner, m)
    IN  [printed |-> TRUE,
         cancelled |-> is_cancelled(self),
         summary |-> stats,
         successfully_analyzed |->                               \* line 379
             IF stats = None THEN None
             ELSE Some(usize_sub(stats[1].files_completed,
                                 stats[1].total_errors)),
         total_discovered |-> total_discovered,
         results |-> IF analyses = None THEN <<>>
                     ELSE SubSeq(analyses[1], 1, show_count)]

\* main going round again after every pass
AlwaysCount(passes) == "main_count"

\* where main goes on after a call of process_files that was not cancelled:
\* line 59 after the first, line 93 after the second
AfterUncancelledPass(passes) ==
    IF passes = 1 THEN "main_count" ELSE "main_display"

\* lines 53-56 and 79-82: process_files has returned; a cancelled run exits
Main_AfterPass ==
    /\ mpc = "returned"
    /\ mpc' = IF is_cancelled(Shared(tracker, cancel_flag))
              THEN "exited"
              ELSE AfterUncancelledPass(tcall.main.passes)
    /\ tcall' = IF tcall.main.passes = 1
                THEN [tcall EXCEPT !.main.first =
                        [returned |-> TRUE, cancelled |-> cancel_flag,
                         tracker |-> tracker]]
                ELSE tcall
    /\ UNCHANGED <<size, queue, qlock, notified, wpc, wmsg, thread, mcall, joined,
                   tasks, tstate, runs, dispatched, deqCancel, terminates_sent,
                   counter>>
    /\ UNCHANGED <<trackerVars, procVars>>

\* lines 59-62: is the number of analyses short of the number requested?
Main_Count ==
    /\ mpc = "main_count"
    /\ LET analyses == shared_get_completed_analyses(tracker, tlock)
       IN  mpc' = IF analyses # None /\ limit > Len(analyses[1])
                  THEN "main_download"
                  ELSE "main_display"
    /\ UNCHANGED <<size, queue, qlock, notified, wpc, wmsg, thread, mcall, joined,
                   tasks, tstate, runs, dispatched, deqCancel, terminates_sent,
                   counter>>
    /\ UNCHANGED <<trackerVars, procVars, tcall>>

\* lines 69-74: the download, then process_files is called again: it discovers
\* the files that are there now and works with a pool of its own
Main_Download ==
    /\ mpc = "main_download"
    /\ LET actual_count == Len(tracker.completed_analyses)
       IN  \E newly_downloaded \in 0..(limit - actual_count) :
               LET result == download_books_to_meet_demand(
                                 actual_count, limit, newly_downloaded)
               IN  IF result.ok
                   THEN /\ mpc' = "pf_start"
                        /\ discovered' = discovered + newly_downloaded
                        /\ tcall' = [tcall EXCEPT !.main.passes = @ + 1,
                                                  !.main.downloaded = TRUE]
                   ELSE /\ mpc' = "main_display"
                        /\ UNCHANGED <<discovered, tcall>>
    /\ queue' = <<>>
    /\ qlock' = Free
    /\ notified' = {}
    /\ wpc' = [w \in Workers |-> "unspawned"]
    /\ wmsg' = [w \in Workers |-> NoMessage]
    /\ wres' = [w \in Workers |-> NoAnalysis]
    /\ thread' = [w \in Workers |-> TRUE]
    /\ mcall' = "none"
    /\ joined' = 0
    /\ tasks' = <<>>
    /\ tstate' = <<>>
    /\ runs' = <<>>
    /\ dispatched' = <<>>
    /\ deqCancel' = <<>>
    /\ terminates_sent' = 0
    /\ rpc' = "not_started"
    /\ summary' = NoSummary
    /\ UNCHANGED <<size, counter, trackerVars, CANCEL_REQUESTED, limit>>

\* line 93: display_results(progress, display_count, total_discovered)
Main_Display ==
    /\ mpc = "main_display"
    /\ mpc' = "displayed"
    /\ tcall' = [tcall EXCEPT !.main.shown =
                    display_results(Shared(tracker, cancel_flag), tlock,
                                    limit, discovered)]
    /\ UNCHANGED <<size, queue, qlock, notified, wpc, wmsg, thread, mcall, joined,
                   tasks, tstate, runs, dispatched, deqCancel, terminates_sent,
                   counter>>
    /\ UNCHANGED <<trackerVars, procVars>>

MainProgram ==
    \/ Main_AfterPass
    \/ Main_Count
    \/ Main_Download
    \/ Main_Display

MainInit ==
    /\ PoolNew(1, "unspawned")
    /\ mpc = "pf_start"
    /\ mcall = "none"
    /\ TrackerIdle
    /\ \E d \in 0..MaxFiles, l \in 1..MaxLimit : ProcessIdle(d, l)
    /\ tcall = [main |-> MainCall(1, NoPass, FALSE, NothingShown)]

MainNext ==
    \/ Next
    \/ MainProgram

MainSpec == MainInit /\ [][MainNext]_vars

\* ------------------------------------------------------------- fairness
\* The threads are OS threads: each one that can take a step again and again
\* eventually takes it.  A spurious wake-up is never owed.

WorkerStep(w) ==
    /\ w \in Workers
    /\ \/ WorkerLock(w)
       \/ WorkerWait(w)
       \/ WorkerWake(w)
       \/ WorkerTakeTask(w)
       \/ WorkerTakeTerminate(w)
       \/ FileTask(w)

FairSpec ==
    /\ Spec
    /\ \A i \in 1..MaxWorkers : SF_vars(WorkerStep(WorkerIds[i]))
    /\ SF_vars(PoolMethods \/ ProcessFiles)
    /\ SF_vars(Reporter)

\* The pool and its client under the same scheduling: a thread of the pool that
\* can take a step again and again eventually takes it; the client owes no call.
PoolFairSpec ==
    /\ PoolSpec
    /\ \A i \in 1..MaxWorkers :
          SF_vars(/\ WorkerIds[i] \in Workers
                  /\ \/ WorkerStep(WorkerIds[i])
                     \/ TaskIncr(WorkerIds[i])
                     \/ TaskPanic(WorkerIds[i]))
    /\ SF_vars(PoolMethods)

\* ------------------------------------------------------------- helpers of the claims

TaskIds == 1..Len(tasks)

ShutdownReturned == mcall = "shutdown" /\ mpc \in {"shutdown_returned", "pf_check_cancel", "returned"}

AllWorkersPanicked == \A w \in Workers : wpc[w] = "panicked"

\* the entries of tracker.completed_analyses that task t's analysis accounts for
EntriesOf(t) ==
    {i \in 1..Len(tracker.completed_analyses) :
        tracker.completed_analyses[i] = TaskAnalysis(tasks[t].path)}

\* ------------------------------------------------------------- claims

C2_ConsumedOnce ==
    /\ \A t \in TaskIds : runs[t] <= 1
    /\ \A w1, w2 \in Workers :
          (w1 # w2 /\ wmsg[w1].type = "NewTask" /\ wmsg[w2].type = "NewTask")
              => wmsg[w1].id # wmsg[w2].id
    /\ (mpc \in {"shutdown_returned", "dropped"} /\ \A t \in TaskIds : tasks[t].kind = "incr")
          => (counter = Len(tasks) /\ \A t \in TaskIds : runs[t] = 1)

C2_Witness ==
    /\ mpc = "shutdown_returned"
    /\ size = 2
    /\ Len(tasks) = 3
    /\ \A t \in TaskIds : tasks[t].kind = "incr"
    /\ counter = 3

\* C5 (as stated): when shutdown() returns, the queue is empty and every worker
\* thread has exited.
C5_PoolDrained ==
    ShutdownReturned => (queue = <<>> /\ \A w \in Workers : Ended(w))

\* C6 (as stated): over the life of a pool ended with shutdown(), exactly `size`
\* Terminate messages are appended, one per worker.
C6_TerminatesOncePerWorker ==
    ShutdownReturned => terminates_sent = size

\* C7: tasks are dequeued in the order they were submitted: the k-th task
\* dequeued is the k-th task submitted, under every interleaving.
C7_FifoDispatch ==
    \A k \in 1..Len(dispatched) : dispatched[k] = k

C7_Witness ==
    /\ size = 2
    /\ Len(dispatched) = 3
    /\ wpc["w1"] = "task" /\ wmsg["w1"].id = 3
    /\ wpc["w2"] = "task" /\ wmsg["w2"].id = 2


\* C3 (as stated): after pool.shutdown() has returned, the analysis of every
\* task process_files submitted is in the tracker's completed sequence, unless
\* CANCEL_REQUESTED was already set when the task was dequeued.
C3_RecordedUnlessCancelledAtDequeue ==
    ShutdownReturned =>
        \A t \in TaskIds : EntriesOf(t) # {} \/ deqCancel[t]

\* C3 (amended): after pool.shutdown() has returned, process_files has submitted
\* one task per file to process and the analysis of each is in the tracker's
\* completed sequence (once), unless CANCEL_REQUESTED was set before the task's
\* last check of it: the check after the analysis, just before recording.
C3_RecordedUnlessCancelSeen ==
    ShutdownReturned =>
        /\ Len(tasks) = ActualCount
        /\ \A t \in TaskIds :
              \/ tstate[t] = "recorded" /\ Cardinality(EntriesOf(t)) = 1
              \/ /\ tstate[t] \in {"skipped_before", "skipped_after"}
                 /\ CANCEL_REQUESTED
                 /\ EntriesOf(t) = {}

C3_Witness ==
    /\ ShutdownReturned
    /\ Len(tasks) = 2
    /\ tstate[1] = "recorded"
    /\ tstate[2] = "skipped_after"
    /\ ~deqCancel[2]

\* C4 (as stated): once CANCEL_REQUESTED is set during a run of process_files,
\* shutdown() returns, the reporter exits and is joined, and process_files
\* returns.
C4_CancelledRunReturns ==
    (CANCEL_REQUESTED /\ mpc # "returned") ~> (mpc = "returned")

\* C8: a worker that is running a task, or is blocked inside one, does not hold
\* the queue mutex.
C8_LockReleasedBeforeTask ==
    \A w \in Workers : InTask(w) => qlock # w

C8_Witness ==
    /\ wpc["w1"] = "record_lock"
    /\ tlock = "w2"
    /\ qlock = MainThread
    /\ mpc = "shut_push"

\* C9: no thread holds the queue mutex and the tracker mutex at the same time.
C9_OneLockAtATime ==
    \A th \in Workers \cup {MainThread, ReporterThread} :
        ~(qlock = th /\ tlock = th)

C9_Witness ==
    /\ tlock = "w1"
    /\ qlock = "w2"
    /\ rpc = "sleep"


\* C10: in every state of a tracker, whatever set_total_files, record_completion
\* and cancel calls were made and from whichever threads, files_completed is
\* the length of the completed sequence.
C10_CompletedCountMatches ==
    tracker.files_completed = Len(tracker.completed_analyses)

C10_Witness ==
    /\ tracker.files_completed = 3
    /\ tracker.total_files = 2
    /\ cancel_flag
    /\ tlock = "c2"
    /\ tcall["c2"].op = "set_total_files"

\* ------------------------------------------------------------- C11

\* the errors of a sequence of analyses, counted
RECURSIVE SumErrors(_)
SumErrors(as) ==
    IF as = <<>> THEN 0 ELSE Len(Head(as).errors) + SumErrors(Tail(as))

\* the "{filename}: {error}" lines of a sequence of analyses, in order
RECURSIVE AllErrorLines(_)
AllErrorLines(as) ==
    IF as = <<>> THEN <<>> ELSE ErrorLines(Head(as)) \o AllErrorLines(Tail(as))

\* C11: in every state of a tracker, total_errors is the sum of the numbers of
\* errors of the analyses in the completed sequence, and errors_log holds
\* exactly one "{filename}: {error}" line for each of those errors.
C11_ErrorsSumAndLog ==
    /\ tracker.total_errors = SumErrors(tracker.completed_analyses)
    /\ tracker.errors_log = AllErrorLines(tracker.completed_analyses)
    /\ Len(tracker.errors_log) = tracker.total_errors

C11_Witness ==
    /\ Len(tracker.completed_analyses) = 3
    /\ tracker.total_errors = 3
    /\ tracker.completed_analyses[1].errors = <<"IoError", "CorruptedFile">>
    /\ tracker.completed_analyses[2].errors = <<>>
    /\ tracker.errors_log = <<<<"f1", "IoError">>, <<"f1", "CorruptedFile">>,
                              <<"f2", "FileNotFound">>>>

\* ------------------------------------------------------------- C12

\* the counters of a tracker agree with its completed sequence
Consistent(t) ==
    /\ t.files_completed = Len(t.completed_analyses)
    /\ t.total_errors = SumErrors(t.completed_analyses)
    /\ t.errors_log = AllErrorLines(t.completed_analyses)

\* C12: record_completion is atomic with respect to other records and to
\* snapshots.  A thread that has just taken the tracker mutex (a task about to
\* record, the reporter about to copy its summary), and any thread looking
\* while the mutex is free, finds the counters and the completed sequence in
\* agreement; the summary the reporter copied is one such state; and once the
\* pool has been shut down with every one of the N tasks having recorded,
\* files_completed is N and the completed sequence holds N distinct entries,
\* one per task.
C12_RecordAtomic ==
    /\ (tlock = Free \/ rpc = "locked" \/ \E w \in Workers : wpc[w] = "recording")
          => Consistent(tracker)
    /\ rpc = "check" => summary.files_completed <= Len(tracker.completed_analyses)
    /\ (ShutdownReturned /\ \A t \in TaskIds : tstate[t] = "recorded") =>
          /\ tracker.files_completed = Len(tasks)
          /\ Len(tracker.completed_analyses) = Len(tasks)
          /\ \A i, j \in 1..Len(tracker.completed_analyses) :
                i # j => tracker.completed_analyses[i] # tracker.completed_analyses[j]
          /\ \A t \in TaskIds : Cardinality(EntriesOf(t)) = 1

\* two workers' records met at the mutex and both went in, while the reporter
\* took a snapshot between them
C12_Witness ==
    /\ size = 2
    /\ ShutdownReturned
    /\ Len(tasks) = 2
    /\ tracker.files_completed = 2
    /\ tracker.completed_analyses[1].filename = "f2"
    /\ tracker.completed_analyses[2].filename = "f1"
    /\ rpc = "check"
    /\ summary.files_completed = 1

\* ------------------------------------------------------------- C13

\* C13: a run of process_files in which CANCEL_REQUESTED is never set (no task
\* of process_files panics) terminates: every task records, the reporter sees
\* files_completed >= total and exits, and process_files returns with
\* files_completed = total = K, the number of files to process.
C13_UncancelledRunReturns ==
    <>(\/ CANCEL_REQUESTED
       \/ /\ mpc = "returned"
          /\ tracker.files_completed = tracker.total_files
          /\ tracker.total_files = ActualCount
          /\ Len(tasks) = ActualCount
          /\ \A t \in TaskIds : tstate[t] = "recorded"
          /\ ActualCount > 0 => rpc = "exited")

C13_Witness ==
    /\ mpc = "returned"
    /\ ~CANCEL_REQUESTED
    /\ size = 2
    /\ rpc = "exited"
    /\ tracker.total_files = 2
    /\ tracker.files_completed = 2
    /\ \A t \in TaskIds : tstate[t] = "recorded"

\* ------------------------------------------------------------- C14, C15

\* a step that is a call of cancel() by some holder of a clone
CancelCalled == \E c \in TrackerClients : TrackerCancel(c)

\* a step in which some holder of a clone completes a record_completion
RecordCalled == \E c \in TrackerClients : TrackerRecord(c)

\* C14: the tracker's cancel flag is one-shot.  is_cancelled() is false on a
\* new tracker, it is true after every call of cancel(), and no step of any
\* clone's holder (set_total_files, record_completion, get_summary, a further
\* cancel) takes it from true back to false.
C14_CancelOneShot ==
    /\ ~is_cancelled(Shared(tracker, cancel_flag))
    /\ [][/\ CancelCalled => is_cancelled(Shared(tracker, cancel_flag))'
          /\ is_cancelled(Shared(tracker, cancel_flag))
                => is_cancelled(Shared(tracker, cancel_flag))']_vars

\* cancelled by one clone's holder, while the other then records a third analysis
C14_Witness ==
    /\ is_cancelled(Shared(tracker, cancel_flag))
    /\ tracker.files_completed = 2
    /\ tlock = "c2"
    /\ tcall["c2"].op = "record_completion"
    /\ tcall["c1"] = NoCall

\* C15: cancel() changes the cancel flag and nothing else: total_files,
\* files_completed, total_errors, the completed sequence and errors_log (and the
\* mutex) are as before the call; and a record_completion made after cancel()
\* still counts and appends its analysis.
C15_CancelFrame ==
    [][/\ CancelCalled => (tracker' = tracker /\ tlock' = tlock)
       /\ (cancel_flag /\ RecordCalled) =>
             /\ tracker'.files_completed = tracker.files_completed + 1
             /\ \E c \in TrackerClients :
                   tracker'.completed_analyses =
                       Append(tracker.completed_analyses, tcall[c].analysis)]_vars

\* a cancelled tracker with a total, two records and an error, to which the
\* flag made no difference
C15_Witness ==
    /\ cancel_flag
    /\ tracker.total_files = 1
    /\ tracker.files_completed = 2
    /\ tracker.total_errors = 2
    /\ tlock = Free

\* ------------------------------------------------------------- C16

\* the f64 next above x (x > 0)
Succ(x) ==
    LET up == Increment(x.m)
    IN  IF up[3] = 2 ^ TopBits
        THEN [m |-> <<0, 0, 2 ^ (TopBits - 1)>>, e |-> x.e + 1]
        ELSE [m |-> up, e |-> x.e]

\* x and y are the same f64 or neighbours
WithinOneUlp(x, y) ==
    \/ x = y
    \/ x # Zero /\ y # Zero /\ (Succ(x) = y \/ Succ(y) = x)

\* 100 * completed / total as an f64: the quotient of the two integers, rounded
\* once
ExactPercentage(completed, total) ==
    IF total = 0 THEN Zero ELSE DivF64(100 * completed, total)

\* C16 (as stated): a snapshot's percentage is 100 * files_completed / total
\* when total > 0 and 0 when total = 0, for every files_completed, also above
\* total.
C16_PercentageIsQuotient ==
    summary.progress_percentage =
        ExactPercentage(summary.files_completed, summary.total_files)

\* C16 (amended): a snapshot's percentage is 0 when total = 0; when total > 0 it
\* is the f64 product (files_completed / total) * 100, which is rounded twice:
\* it is 100 * files_completed / total or an f64 next to it, for every
\* files_completed, also above total, and it is exactly that quotient when
\* files_completed is a multiple of total.
C16_PercentageWithinOneUlp ==
    LET c == summary.files_completed
        t == summary.total_files
    IN  /\ t = 0 => summary.progress_percentage = Zero
        /\ t > 0 =>
              /\ WithinOneUlp(summary.progress_percentage, ExactPercentage(c, t))
              /\ c % t = 0 => summary.progress_percentage = ExactPercentage(c, t)

\* 4 of 3 files: above the total, and one unit in the last place off 400/3
C16_Witness ==
    /\ summary.files_completed = 4
    /\ summary.total_files = 3
    /\ summary.progress_percentage # ExactPercentage(4, 3)
    /\ Succ(ExactPercentage(4, 3)) = summary.progress_percentage
       \/ Succ(summary.progress_percentage) = ExactPercentage(4, 3)

\* ------------------------------------------------------------- C17

\* C17: once the tracker mutex is poisoned, every set_total_files and
\* record_completion is skipped and leaves the tracker as it was, and every
\* get_summary, get_completed_analyses and get_errors returns None; none of
\* them fails, and the mutex stays poisoned.
C17_PoisonedCallsSkipped ==
    [][tlock = Poisoned =>
          /\ tracker' = tracker
          /\ tlock' = Poisoned
          /\ summary' # summary => summary' = None]_vars

\* a tracker poisoned after one record and a total, on which a reader was then
\* called
C17_Witness ==
    /\ tlock = Poisoned
    /\ tracker.files_completed = 1
    /\ tracker.total_files = 2
    /\ summary = None

\* ------------------------------------------------------------- C18

\* C18: ThreadPool::new(0) panics and spawns no worker; ThreadPool::new(size)
\* with size >= 1 returns a pool of exactly size workers, and num_workers() is
\* size from then on (also after workers have exited).
C18_NewChecksSize ==
    /\ size = 0 => (mpc \in {"new", "panicked"} /\ num_workers = 0)
    /\ size >= 1 => mpc # "panicked"
    /\ (size >= 1 /\ mpc # "new") =>
          /\ num_workers = size
          /\ Cardinality(DOMAIN thread) = size

C18_Witness ==
    /\ size = 0
    /\ mpc = "panicked"
    /\ num_workers = 0
    /\ tasks = <<>>

\* ------------------------------------------------------------- C19

\* more than MAX_LINE_ERRORS read failures in a row
ErrorRun(lines) ==
    \E i \in 1..Len(lines) :
        /\ i + MAX_LINE_ERRORS <= Len(lines)
        /\ \A j \in i..(i + MAX_LINE_ERRORS) : ~lines[j].ok

\* some answer the call got is a failure: an empty path, a missing file, a
\* directory, a metadata error, an open error, too many read errors
Failure(file_path, fs) ==
    \/ file_path = ""
    \/ fs.try_exists # "true"
    \/ fs.validate_metadata.err # NoError
    \/ is_dir(fs.validate_metadata)
    \/ fs.metadata.err # NoError
    \/ ~is_file(fs.metadata)
    \/ fs.open # NoError
    \/ ErrorRun(fs.lines)

\* C19: for every path and every series of answers of the file system,
\* analyze_file returns Ok(record) for that path; the record's errors are
\* non-empty exactly when one of the answers was a failure, and is_successful()
\* is true exactly when errors is empty.
C19_AnalyzeFileNeverFails ==
    \A c \in DOMAIN tcall :
        tcall[c].op = "returned" =>
            LET result == tcall[c].result
            IN  /\ result.ok
                /\ result.value.filename = tcall[c].file_path
                /\ Failure(tcall[c].file_path, tcall[c].fs)
                       <=> result.value.errors # <<>>
                /\ is_successful(result.value) <=> result.value.errors = <<>>

\* a file abandoned after too many read errors came back as Ok(record) with
\* the error in the record
C19_Witness ==
    \E c \in DOMAIN tcall :
        /\ tcall[c].op = "returned"
        /\ tcall[c].file_path # ""
        /\ tcall[c].fs.open = NoError
        /\ ErrorRun(tcall[c].fs.lines)
        /\ tcall[c].result.ok
        /\ tcall[c].result.value.errors = <<"CorruptedFile">>
        /\ ~is_successful(tcall[c].result.value)

\* ------------------------------------------------------------- C20

\* the class path validation puts a call in: the path is empty, else it does
\* not exist, else it is a directory
PathClass(file_path, fs) ==
    IF file_path = "" THEN "InvalidPath"
    ELSE IF fs.try_exists = "false" THEN "FileNotFound"
    ELSE IF fs.try_exists = "true" /\ is_dir(fs.validate_metadata)
         THEN "DirectoryError"
    ELSE "none"

\* C20: an empty path gives InvalidPath whatever the file system answers; a
\* non-empty path that does not exist gives FileNotFound; one that is a
\* directory gives DirectoryError; the record returned has exactly that one
\* error and its stats are FileStats::new().
C20_ValidationOrder ==
    \A c \in DOMAIN tcall :
        LET class == PathClass(tcall[c].file_path, tcall[c].fs)
        IN  tcall[c].op = "returned" /\ class # "none" =>
                /\ tcall[c].result.ok
                /\ tcall[c].result.value.errors = <<class>>
                /\ tcall[c].result.value.stats = NewFileStats

\* an empty path that the file system also reports missing came back with
\* InvalidPath alone
C20_Witness ==
    \E c \in DOMAIN tcall :
        /\ tcall[c].op = "returned"
        /\ tcall[c].file_path = ""
        /\ tcall[c].fs.try_exists = "false"
        /\ tcall[c].result.value.errors = <<"InvalidPath">>
        /\ tcall[c].result.value.stats = NewFileStats

\* ------------------------------------------------------------- C21

\* C21: whenever analyze_file returns a record whose errors is non-empty,
\* word_count, line_count and size_bytes are 0 and char_frequencies is empty.
C21_FailureLeavesDefaults ==
    \A c \in DOMAIN tcall :
        (tcall[c].op = "returned" /\ tcall[c].result.value.errors # <<>>) =>
            LET stats == tcall[c].result.value.stats
            IN  /\ stats.word_count = 0
                /\ stats.line_count = 0
                /\ stats.size_bytes = 0
                /\ stats.char_frequencies = EmptyMap

\* ------------------------------------------------------------- C22

\* C22: a file with size_bytes > 0 that is read whole and without errors has a
\* non-empty char_frequencies map.
C22_NonEmptyFileHasFrequencies ==
    \A c \in DOMAIN tcall :
        (/\ tcall[c].op = "returned"
         /\ ReadAsMeasured(tcall[c].fs)
         /\ is_successful(tcall[c].result.value)
         /\ tcall[c].result.value.stats.size_bytes > 0) =>
            tcall[c].result.value.stats.char_frequencies # EmptyMap

\* ------------------------------------------------------------- C23

\* an existing regular file of no bytes that can be opened: lines() yields nothing
EmptyFile(file_path, fs) ==
    /\ file_path # ""
    /\ fs.try_exists = "true"
    /\ fs.validate_metadata.err = NoError
    /\ ~is_dir(fs.validate_metadata)
    /\ fs.metadata.err = NoError
    /\ is_file(fs.metadata)
    /\ fs.metadata.len = 0
    /\ fs.open = NoError
    /\ fs.lines = <<>>

\* C23: analyze_file on an empty file returns a successful record with
\* line_count, word_count and size_bytes 0 and an empty char_frequencies map.
C23_EmptyFile ==
    \A c \in DOMAIN tcall :
        (tcall[c].op = "returned" /\ EmptyFile(tcall[c].file_path, tcall[c].fs)) =>
            /\ tcall[c].result.ok
            /\ is_successful(tcall[c].result.value)
            /\ tcall[c].result.value.stats.line_count = 0
            /\ tcall[c].result.value.stats.word_count = 0
            /\ tcall[c].result.value.stats.size_bytes = 0
            /\ tcall[c].result.value.stats.char_frequencies = EmptyMap

\* the analysis of an empty file has returned
C23_Witness ==
    \E c \in DOMAIN tcall :
        /\ tcall[c].op = "returned"
        /\ EmptyFile(tcall[c].file_path, tcall[c].fs)
        /\ tcall[c].result.value = NewFileAnalysis(tcall[c].file_path)

\* ------------------------------------------------------------- C24

\* the call got as far as reading the file's lines
Reading(file_path, fs) == file_path # "" /\ fs.open = NoError

\* the lines among the first n that were read
SuccessfulLines(lines, n) == Cardinality({i \in 1..n : lines[i].ok})

\* line result n is a failure and so are the MAX_LINE_ERRORS before it
FailsInARow(lines, n) ==
    /\ n > MAX_LINE_ERRORS
    /\ \A j \in (n - MAX_LINE_ERRORS)..n : ~lines[j].ok

\* the first 11th failure in a row
FirstAbandon(lines) ==
    CHOOSE n \in 1..Len(lines) :
        /\ FailsInARow(lines, n)
        /\ \A m \in 1..(n - 1) : ~FailsInARow(lines, m)

\* C24: over every sequence of line results, the file is abandoned with the
\* single error CorruptedFile exactly when more than MAX_LINE_ERRORS failures
\* come in a row, at the 11th of them (the lines counted are those read before
\* it); otherwise the record is successful and line_count is the number of
\* lines that were read, however many failures there were in all.
C24_BoundedTolerance ==
    \A c \in DOMAIN tcall :
        (tcall[c].op = "returned" /\ Reading(tcall[c].file_path, tcall[c].fs)) =>
            LET lines == tcall[c].fs.lines
                record == tcall[c].result.value
            IN  IF ErrorRun(lines)
                THEN /\ record.errors = <<"CorruptedFile">>
                     /\ record.stats.line_count =
                            SuccessfulLines(lines, FirstAbandon(lines))
                ELSE /\ is_successful(record)
                     /\ record.stats.line_count =
                            SuccessfulLines(lines, Len(lines))

\* MAX_LINE_ERRORS failures, a line that is read, MAX_LINE_ERRORS failures
\* again: the file was not abandoned
C24_Witness ==
    \E c \in DOMAIN tcall :
        /\ tcall[c].op = "returned"
        /\ Reading(tcall[c].file_path, tcall[c].fs)
        /\ Len(tcall[c].fs.lines) = 2 * MAX_LINE_ERRORS + 1
        /\ \A i \in DOMAIN tcall[c].fs.lines :
               tcall[c].fs.lines[i].ok <=> i = MAX_LINE_ERRORS + 1
        /\ is_successful(tcall[c].result.value)
        /\ tcall[c].result.value.stats.line_count = 1

\* ------------------------------------------------------------- C25

\* the first n characters of a line cut at every whitespace character
RECURSIVE Segments(_, _)
Segments(line, n) ==
    IF n = 0 THEN <<<<>>>>
    ELSE LET before == Segments(line, n - 1)
         IN  IF is_whitespace(line[n])
             THEN Append(before, <<>>)
             ELSE [before EXCEPT ![Len(before)] = Append(@, line[n])]

\* the non-empty segments of a line split on whitespace runs
Words(line) ==
    LET segments == Segments(line, Len(line))
    IN  Cardinality({i \in DOMAIN segments : segments[i] # <<>>})

RECURSIVE WordsOfLines(_, _)
WordsOfLines(lines, n) ==
    IF n = 0 THEN 0
    ELSE WordsOfLines(lines, n - 1) + Words(lines[n].content)

\* C25: when every line of the file is read, line_count is the number of
\* lines and word_count is the sum over the lines of their non-empty
\* whitespace-separated segments.
C25_LinesAndWords ==
    \A c \in DOMAIN tcall :
        (/\ tcall[c].op = "returned"
         /\ Reading(tcall[c].file_path, tcall[c].fs)
         /\ \A i \in DOMAIN tcall[c].fs.lines : tcall[c].fs.lines[i].ok) =>
            LET lines == tcall[c].fs.lines
                stats == tcall[c].result.value.stats
            IN  /\ is_successful(tcall[c].result.value)
                /\ stats.line_count = Len(lines)
                /\ stats.word_count = WordsOfLines(lines, Len(lines))

\* a line of two words and a blank line were analysed: 2 lines, 2 words
C25_Witness ==
    \E c \in DOMAIN tcall :
        /\ tcall[c].op = "returned"
        /\ Reading(tcall[c].file_path, tcall[c].fs)
        /\ tcall[c].fs.lines = <<OkLine(<<"A", " ", "A">>), OkLine(<<>>)>>
        /\ tcall[c].result.value.stats.line_count = 2
        /\ tcall[c].result.value.stats.word_count = 2

\* ------------------------------------------------------------- C26

\* the table of the conversion; a category it does not list gives IoError
ConversionTable ==
    [kind \in {"NotFound", "PermissionDenied", "InvalidFilename", "InvalidInput",
               "InvalidData", "StorageFull", "OutOfMemory", "NotADirectory",
               "IsADirectory"} |->
        IF kind = "NotFound" THEN "FileNotFound"
        ELSE IF kind = "PermissionDenied" THEN "PermissionDenied"
        ELSE IF kind = "InvalidFilename" THEN "InvalidPath"
        ELSE IF kind = "InvalidInput" THEN "InvalidPath"
        ELSE IF kind = "InvalidData" THEN "CorruptedFile"
        ELSE IF kind = "StorageFull" THEN "SystemResource"
        ELSE IF kind = "OutOfMemory" THEN "SystemResource"
        ELSE "DirectoryError"]

Converted(kind) ==
    IF kind \in DOMAIN ConversionTable THEN ConversionTable[kind] ELSE "IoError"

\* the io::Error the call ended on, if it ended on one
EndedOn(fs) ==
    IF fs.try_exists \in ErrorKinds THEN {fs.try_exists}
    ELSE IF fs.validate_metadata.err \in ErrorKinds THEN {fs.validate_metadata.err}
    ELSE IF fs.metadata.err \in ErrorKinds THEN {fs.metadata.err}
    ELSE IF fs.open \in ErrorKinds THEN {fs.open}
    ELSE {}

\* C26: an io::Error of any category is converted, by the table, into
\* FileNotFound, PermissionDenied, InvalidPath, CorruptedFile, SystemResource,
\* DirectoryError, or IoError for every category the table does not list; the
\* conversion never gives ParseError, Cancelled or SymlinkError.
C26_ConversionTable ==
    \A c \in DOMAIN tcall :
        (tcall[c].op = "returned" /\ tcall[c].file_path # "") =>
            \A kind \in EndedOn(tcall[c].fs) :
                /\ tcall[c].result.value.errors = <<Converted(kind)>>
                /\ from(kind) \notin {"ParseError", "Cancelled", "SymlinkError"}

\* File::open failed with a category the table does not list: IoError
C26_Witness ==
    \E c \in DOMAIN tcall :
        /\ tcall[c].op = "returned"
        /\ tcall[c].file_path # ""
        /\ tcall[c].fs.open = "Interrupted"
        /\ tcall[c].result.value.errors = <<"IoError">>

\* ------------------------------------------------------------- C27

\* the lower-case form of a string
Lowercase(string) == [i \in DOMAIN string |-> to_lowercase(string[i])[1]]

\* the regular files of a readable directory, and of the readable directories
\* in it, by path
RegularFiles(dir, directory) ==
    LET files(d, entries) ==
            {[path |-> Join(d, entries[i].name), name |-> entries[i].name] :
                i \in {j \in DOMAIN entries : entries[j].kind = "file"}}
        inner == {i \in DOMAIN directory.entries :
                     /\ directory.entries[i].kind = "dir"
                     /\ directory.entries[i].directory.readable}
    IN  files(dir, directory.entries)
            \cup UNION {files(Join(dir, directory.entries[i].name),
                              directory.entries[i].directory.entries) : i \in inner}

\* C27: a regular file is discovered exactly when the lower-case form of its
\* extension is in the whitelist (txt, md), whatever the case of the extension
\* in the file's name.
C27_CaseInsensitiveExtensions ==
    \A c \in DOMAIN tcall :
        tcall[c].op = "returned" =>
            \A i \in DOMAIN tcall[c].directories :
                \A f \in RegularFiles(tcall[c].directories[i].path,
                                      tcall[c].directories[i].directory) :
                    contains(tcall[c].files, f.path)
                        <=> /\ extension(f.name) # None
                            /\ contains(tcall[c].extensions,
                                        Lowercase(extension(f.name)[1]))

\* ------------------------------------------------------------- C28

\* K = min(N, |discovered|)
MinRequestedDiscovered == IF limit <= discovered THEN limit ELSE discovered

\* process_files has gone past its loop of execute() calls (line 572 on)
SubmissionOver == mcall = "shutdown"

\* C28: when the discovered list is not empty, the tracker's total is
\* K = min(limit, |discovered|) from before the first task is submitted, task i
\* is the analysis of the i-th discovered path, no more than K tasks are ever
\* submitted and exactly K once the submission loop is over.
C28_FirstKSubmitted ==
    discovered > 0 =>
        /\ Len(tasks) > 0 \/ mpc \notin {"pf_start", "pf_setup"} =>
               tracker.total_files = MinRequestedDiscovered
        /\ Len(tasks) <= MinRequestedDiscovered
        /\ SubmissionOver => Len(tasks) = MinRequestedDiscovered
        /\ \A i \in DOMAIN tasks :
               tasks[i] = [kind |-> "file", path |-> FileNames[i]]

\* fewer files were requested than discovered, and the run has returned
C28_Witness ==
    /\ mpc = "returned"
    /\ discovered = 2
    /\ limit = 1
    /\ Len(tasks) = 1
    /\ tasks[1].path = FileNames[1]
    /\ tracker.total_files = 1

\* ------------------------------------------------------------- C29

\* the tasks of the pool of the current call of process_files that recorded
RecordedTasks == {t \in DOMAIN tasks : tstate[t] = "recorded"}

\* C29: when main has called process_files a second time, what display_results
\* shows is the tracker of the second call alone: its analyses are those of
\* the tasks that recorded in the second call, one each, its counters count
\* only them, and the results listed are the first min(display_count, count)
\* of them, whatever the first call's tracker held.
C29_SecondPassReplaces ==
    (mpc = "displayed" /\ tcall.main.passes = 2) =>
        LET shown == tcall.main.shown
            analyses == tracker.completed_analyses
            show_count == IF limit < Cardinality(RecordedTasks)
                          THEN limit ELSE Cardinality(RecordedTasks)
        IN  /\ Len(analyses) = Cardinality(RecordedTasks)
            /\ \A t \in RecordedTasks :
                   \E i \in DOMAIN analyses :
                       analyses[i] = TaskAnalysis(tasks[t].path)
            /\ shown.summary # None
            /\ shown.summary[1].files_completed = Cardinality(RecordedTasks)
            /\ shown.summary[1].total_errors =
                   Cardinality({t \in RecordedTasks :
                                   ~is_successful(TaskAnalysis(tasks[t].path))})
            /\ shown.results = SubSeq(analyses, 1, show_count)
            /\ shown.total_discovered = discovered

\* the first call recorded one analysis, the second two: two are shown
C29_Witness ==
    /\ mpc = "displayed"
    /\ tcall.main.passes = 2
    /\ Len(tcall.main.first.tracker.completed_analyses) = 1
    /\ tcall.main.shown.summary[1].files_completed = 2
    /\ Len(tcall.main.shown.results) = 2

\* ------------------------------------------------------------- C30

\* C30: process_files is called at most twice in a run of main; the second
\* call is made only when the first one returned uncancelled with fewer
\* analyses than requested and the download helper returned Ok; after the
\* second call main displays or exits, however many analyses it completed.
C30_AtMostOneRepeat ==
    /\ tcall.main.passes <= 2
    /\ tcall.main.passes = 2 =>
           /\ tcall.main.first.returned
           /\ ~tcall.main.first.cancelled
           /\ Len(tcall.main.first.tracker.completed_analyses) < limit
           /\ tcall.main.downloaded
    /\ mpc \in {"main_count", "main_download"} => tcall.main.passes = 1

\* the second call completed fewer analyses than requested, and main has
\* displayed the results
C30_Witness ==
    /\ mpc = "displayed"
    /\ tcall.main.passes = 2
    /\ Len(tracker.completed_analyses) < limit
    /\ tcall.main.shown.printed

\* ------------------------------------------------------------- C31

\* C31: process_files marks the tracker cancelled exactly when CANCEL_REQUESTED
\* is set at the check made after shutdown() returned and the reporter was
\* joined; the tracker's cancel flag starts unset and no other step of the run
\* changes it.
C31_CancelledOnlyAtFinalCheck ==
    /\ ~cancel_flag
    /\ [][IF mpc = "pf_check_cancel"
          THEN cancel_flag' = CANCEL_REQUESTED
          ELSE cancel_flag' = cancel_flag]_vars

\* a run of two files returned with its tracker marked cancelled
C31_Witness ==
    /\ mpc = "returned"
    /\ Len(tasks) = 2
    /\ CANCEL_REQUESTED
    /\ cancel_flag

\* ------------------------------------------------------------- C32

\* the worker that holds task t, if any
HolderOf(t) == {w \in Workers : wmsg[w].type = "NewTask" /\ wmsg[w].id = t}

\* C32: a task dequeued after CANCEL_REQUESTED was set returns at its first
\* check: it never gets to the analysis and nothing of it is in the tracker;
\* and a task whose analysis is in flight while the flag is set finishes the
\* analysis, sees the flag at its second check and returns without recording.
C32_CancelledTasksDoNotRecord ==
    /\ [](\A t \in TaskIds :
            deqCancel[t] =>
                /\ tstate[t] \in {"running", "skipped_before"}
                /\ \A w \in HolderOf(t) : wpc[w] = "task"
                /\ EntriesOf(t) = {})
    /\ [](\A t \in TaskIds : tstate[t] = "skipped_after" => EntriesOf(t) = {})
    /\ [][\A w \in Workers :
            (CANCEL_REQUESTED /\ wpc[w] = "analyzing" /\ wpc'[w] # "analyzing")
                => /\ tstate'[wmsg[w].id] = "skipped_after"
                   /\ wpc'[w] = "loop"
                   /\ tracker' = tracker]_vars

\* of two files the first was being analysed when the flag was set, the
\* second was dequeued after that
C32_Witness ==
    /\ ShutdownReturned
    /\ Len(tasks) = 2
    /\ tstate[1] = "skipped_after" /\ ~deqCancel[1]
    /\ tstate[2] = "skipped_before" /\ deqCancel[2]
    /\ tracker.files_completed = 0

\* ------------------------------------------------------------- C33

\* C33: the completed sequence grows in the order in which the workers acquired
\* the tracker mutex: a worker that holds the mutex is inside record_completion,
\* it gives the mutex up by appending its own analysis, and nothing is appended
\* by a thread that does not hold the mutex.  (That order need not be the
\* dispatch order: see the witness.)
C33_CompletedInLockOrder ==
    /\ [](\A w \in Workers : tlock = w => wpc[w] \in {"recording", "pushing"})
    /\ [][/\ \A w \in Workers :
                (tlock = w /\ tlock' # w) =>
                    /\ tlock' = Free
                    /\ tracker'.completed_analyses =
                           Append(tracker.completed_analyses, wres[w])
          /\ tracker'.completed_analyses # tracker.completed_analyses =>
                (tlock \in Workers /\ tlock' = Free)]_vars

\* two workers: A (f1) was submitted and dequeued before B (f2), and B's
\* analysis was recorded before A's
C33_Witness ==
    /\ size = 2
    /\ dispatched = <<1, 2>>
    /\ Len(tracker.completed_analyses) = 2
    /\ tracker.completed_analyses[1].filename = "f2"
    /\ tracker.completed_analyses[2].filename = "f1"

\* ------------------------------------------------------------- C34

\* a pool that goes out of scope without shutdown(): Drop for ThreadPool runs
DropCalled == mcall = "drop"

DropReturned == mcall = "drop" /\ mpc = "dropped"

\* what Drop does to the queue and the condvar: `size` Terminates appended at
\* the tail in one critical section, then notify_all
DropSequence ==
    /\ [][(mpc = "drop_push" /\ mpc' # mpc) =>
              /\ queue' = queue \o Terminates(size)
              /\ mpc' = "drop_notify"]_vars
    /\ [][(mpc = "drop_notify" /\ mpc' # mpc) =>
              notified' = notified \cup NotifyAll]_vars
    /\ [](DropReturned => terminates_sent = size)

\* FIFO: a worker gets a Terminate only after every task was dequeued
TasksAheadOfTerminates ==
    \A w \in Workers :
        wmsg[w].type = "Terminate" => \A t \in TaskIds : runs[t] = 1

C35_QueueShape ==
    \A i, j \in 1..Len(queue) :
        (i < j /\ queue[i].type = "Terminate") => queue[j].type = "Terminate"

\* shutdown() has pushed its Terminates behind two tasks still queued
C35_Witness ==
    /\ size = 2
    /\ Len(queue) = 4
    /\ queue[1].type = "NewTask" /\ queue[2].type = "NewTask"
    /\ queue[3].type = "Terminate" /\ queue[4].type = "Terminate"

\* ------------------------------------------------------------- C36

\* the worker threads that are running their loop
LiveWorkers == {w \in Workers : wpc[w] \notin {"unspawned", "exited", "panicked"}}

NotifyPending == mpc \in {"exec_notify", "shut_notify", "drop_notify"}

\* C36: no wake-up is lost: a worker blocked on the condvar while the queue is
\* non-empty has been notified or is about to be (the producer is between its
\* push and its notify_all), and a non-empty queue is eventually emptied, so
\* every message in it is dequeued, unless no live worker remains.
C36_NoLostWakeup ==
    /\ [](\A w \in Workers :
            (wpc[w] = "waiting" /\ queue # <<>>) =>
                (w \in notified \/ NotifyPending))
    /\ (queue # <<>>) ~> (queue = <<>> \/ LiveWorkers = {})

\* both workers are blocked on the condvar when execute() has pushed a task and
\* not yet notified
C36_Witness ==
    /\ size = 2
    /\ \A w \in Workers : wpc[w] = "waiting" /\ w \notin notified
    /\ queue # <<>>
    /\ mpc = "exec_notify"

\* ------------------------------------------------------------- C37

\* C37: a panicking task ends only the worker that ran it, and that worker does
\* not hold the queue mutex when it dies (the mutex is not poisoned); the other
\* workers go on dequeuing, so shutdown() returns, and when it has, a task was
\* left uninvoked only if every worker thread died of a panic.
C37_PanicKillsOneWorker ==
    /\ [][\A w \in Workers :
            (wpc[w] # "panicked" /\ wpc'[w] = "panicked") =>
                /\ qlock # w /\ qlock' = qlock
                /\ \A o \in Workers \ {w} : wpc'[o] = wpc[o]]_vars
    /\ [](\A w \in Workers : wpc[w] = "panicked" => qlock # w)
    /\ (mcall = "shutdown") ~> ShutdownReturned
    /\ [](ShutdownReturned =>
            ((\E t \in TaskIds : runs[t] = 0) => AllWorkersPanicked))

\* the second of three tasks panicked and killed one of two workers; the other
\* worker ran the third task, and shutdown() has returned
C37_Witness ==
    /\ mpc = "shutdown_returned"
    /\ size = 2
    /\ Len(tasks) = 3
    /\ tstate[1] = "done" /\ tstate[2] = "panicked" /\ tstate[3] = "done"
    /\ Cardinality({w \in Workers : wpc[w] = "panicked"}) = 1
    /\ Cardinality({w \in Workers : wpc[w] = "exited"}) = 1

\* ------------------------------------------------------------- C38

\* C38: the tracker of a process_files run never overshoots: in every state
\* files_completed <= total_files, and no more tasks are submitted than
\* total_files; each task has been invoked at most once.
C38_NeverOvershoots ==
    /\ tracker.files_completed <= tracker.total_files
    /\ Len(tracker.completed_analyses) <= tracker.total_files
    /\ Len(tasks) <= ActualCount
    /\ mpc \notin {"pf_start", "pf_setup"} =>
           (discovered > 0 => tracker.total_files = ActualCount)

\* the second run of process_files has recorded both of its files into its own
\* tracker, after a first run that had recorded one
C38_Witness ==
    /\ tcall.main.passes = 2
    /\ Len(tcall.main.first.tracker.completed_analyses) = 1
    /\ tracker.total_files = 2
    /\ tracker.files_completed = 2

\* ------------------------------------------------------------- C39

\* the analyses a run of process_files holds: recorded, or about to be
HeldAnalyses ==
    {tracker.completed_analyses[i] : i \in 1..Len(tracker.completed_analyses)}
        \cup {wres[w] : w \in Workers}

\* C39: every analysis process_files records carries at most one error, so
\* total_errors <= files_completed in every state of its tracker, and the
\* "Successfully Analyzed" figure display_results prints is the difference
\* files_completed - total_errors, computed without overflow.
C39_ErrorsNeverExceedCompleted ==
    /\ \A analysis \in HeldAnalyses : Len(analysis.errors) <= 1
    /\ tracker.total_errors <= tracker.files_completed
    /\ tcall.main.first.tracker.total_errors
           <= tcall.main.first.tracker.files_completed
    /\ LET shown == tcall.main.shown
       IN  shown.summary # None =>
               /\ shown.summary[1].total_errors <= shown.summary[1].files_completed
               /\ shown.successfully_analyzed =
                      Some(shown.summary[1].files_completed
                               - shown.summary[1].total_errors)

\* two files were analysed, one of them with an error: "Successfully
\* Analyzed: 1" was printed
C39_Witness ==
    /\ mpc = "displayed"
    /\ tcall.main.shown.summary = Some([total_files |-> 2, files_completed |-> 2,
                                        total_errors |-> 1])
    /\ tcall.main.shown.successfully_analyzed = Some(1)

\* ------------------------------------------------------------- C40

\* a task that will not run any further
Finished(t) == tstate[t] \in {"recorded", "skipped_before", "skipped_after"}

\* C40: with a pool of one worker the tasks run one at a time, in submission
\* order: a task is dequeued only when every task submitted before it has
\* finished, and the completed sequence lists the analyses in submission order
\* (all of them, position by position, unless a cancelled task was skipped).
C40_SingleWorkerInOrder ==
    size = 1 =>
        /\ \A t \in TaskIds :
              tstate[t] = "running" \/ Finished(t) =>
                  \A u \in 1..(t - 1) : Finished(u)
        /\ Cardinality({t \in TaskIds : tstate[t] = "running"}) <= 1
        /\ \A i, j \in 1..Len(tracker.completed_analyses) :
              i < j =>
                  \E t, u \in TaskIds :
                      /\ t < u
                      /\ i \in EntriesOf(t)
                      /\ j \in EntriesOf(u)
        /\ ~CANCEL_REQUESTED =>
              \A i \in 1..Len(tracker.completed_analyses) :
                  tracker.completed_analyses[i] = TaskAnalysis(tasks[i].path)

\* the one worker ran both tasks and recorded f1's analysis, then f2's
C40_Witness ==
    /\ size = 1
    /\ Len(tasks) = 2
    /\ tstate[1] = "recorded" /\ tstate[2] = "recorded"
    /\ tracker.completed_analyses[1].filename = "f1"
    /\ tracker.completed_analyses[2].filename = "f2"

====
